---- MODULE Spec2Model ----
(***************************************************************************)
(* A model of the numeric finance engine of the Loan-Calculator            *)
(* application: the Core Formula Library (calculateMonthlyPayment), the    *)
(* two amortization-schedule generators, the Loan Calculator modes and the *)
(* APR search.                                                             *)
(*                                                                         *)
(* JavaScript numbers are IEEE 754 binary64 values.  The first part of the *)
(* module is that arithmetic: a finite number is sign * m * 2^e with a     *)
(* 53-bit significand m held in four 14-bit limbs, every operation rounds  *)
(* to nearest, ties to even, and NaN and the infinities propagate as in    *)
(* the language.  Math.pow is modelled for whole exponents (square and     *)
(* multiply in binary64) and Math.log by a series evaluated in binary64;   *)
(* both agree with the engine's library to a few units in the last place.  *)
(***************************************************************************)
EXTENDS Integers, Sequences, FiniteSets, TLC

(***************************************************************************)
(* Wide naturals: little-endian sequences of limbs, W[1] least             *)
(* significant.  TLC's integers are 32 bits wide, so a limb has 14 bits    *)
(* and a column of four limb products still fits.                          *)
(***************************************************************************)
LimbBits == 14
Base == 2^LimbBits
MantBits == 53
MinExp == -1074
MaxExp == 971

Limb(W, i) == IF i >= 1 /\ i <= Len(W) THEN W[i] ELSE 0

WZero(n) == [i \in 1..n |-> 0]

WIsZero(W) == \A i \in 1..Len(W) : W[i] = 0

TopIdx(W) ==
  CHOOSE i \in 0..Len(W) :
    /\ (i = 0 \/ W[i] # 0)
    /\ \A j \in (i+1)..Len(W) : W[j] = 0

BitLenLimb(v) == CHOOSE b \in 0..LimbBits : v < 2^b /\ (b = 0 \/ v >= 2^(b-1))

WBitLen(W) ==
  IF WIsZero(W) THEN 0
  ELSE LimbBits * (TopIdx(W) - 1) + BitLenLimb(W[TopIdx(W)])

(* floor(W / 2^r), the same number of limbs *)
WShr(W, r) ==
  SubSeq([i \in 1..Len(W) |->
            (Limb(W, i + (r \div LimbBits)) \div 2^(r % LimbBits))
            + (Limb(W, i + (r \div LimbBits) + 1) % 2^(r % LimbBits))
              * 2^(LimbBits - (r % LimbBits))],
         1, Len(W))

(* W * 2^r in n limbs (the caller makes n large enough) *)
WShl(W, r, n) ==
  SubSeq([i \in 1..n |->
            (Limb(W, i - (r \div LimbBits)) % 2^(LimbBits - (r % LimbBits)))
              * 2^(r % LimbBits)
            + (Limb(W, i - (r \div LimbBits) - 1) \div 2^(LimbBits - (r % LimbBits)))],
         1, n)

(* W mod 2^r = 0 *)
WLowZero(W, r) ==
  /\ \A i \in 1..(r \div LimbBits) : Limb(W, i) = 0
  /\ Limb(W, (r \div LimbBits) + 1) % 2^(r % LimbBits) = 0

WBit(W, i) == (Limb(W, (i \div LimbBits) + 1) \div 2^(i % LimbBits)) % 2

(***************************************************************************)
(* Carries and borrows.  The columns of W may lie anywhere in 32 bits;     *)
(* WCarry moves the carry of every column one column up, so that three     *)
(* applications leave columns between -1 and Base; WRipple then settles    *)
(* the carries (or the borrows) that run through a row of Base - 1 (or 0). *)
(***************************************************************************)
WCarry(W) ==
  SubSeq([k \in 1..Len(W) |-> (W[k] % Base) + (Limb(W, k - 1) \div Base)], 1, Len(W))

WCarryIn(U, k) ==
  IF \E j \in 1..(k-1) : U[j] >= Base /\ \A i \in (j+1)..(k-1) : U[i] = Base - 1
  THEN 1
  ELSE IF \E j \in 1..(k-1) : U[j] < 0 /\ \A i \in (j+1)..(k-1) : U[i] = 0
  THEN -1
  ELSE 0

WRipple(U) ==
  SubSeq([k \in 1..Len(U) |-> (U[k] + WCarryIn(U, k)) % Base], 1, Len(U))

WNorm(W) == WRipple(WCarry(WCarry(WCarry(W))))

WMax(a, b) == IF a >= b THEN a ELSE b

(* A + sign * B for sign = 1 or -1 (A >= B when sign = -1) *)
WSum(A, B, sign) ==
  WNorm([i \in 1..(WMax(Len(A), Len(B)) + 1) |-> Limb(A, i) + sign * Limb(B, i)])


WLess(A, B) ==
  \E i \in 1..WMax(Len(A), Len(B)) :
    /\ Limb(A, i) < Limb(B, i)
    /\ \A j \in (i+1)..WMax(Len(A), Len(B)) : Limb(A, j) = Limb(B, j)

WEq(A, B) == \A i \in 1..WMax(Len(A), Len(B)) : Limb(A, i) = Limb(B, i)

(* the product of two four-limb numbers, eight limbs *)
WMul(A, B) ==
  WNorm([k \in 1..8 |->
           Limb(A, 1) * Limb(B, k) + Limb(A, 2) * Limb(B, k - 1)
           + Limb(A, 3) * Limb(B, k - 2) + Limb(A, 4) * Limb(B, k - 3)])

(* a natural below 2^31 as a wide number of n limbs *)
WFromNat(v, n) ==
  [i \in 1..n |-> IF i = 1 THEN v % Base
                  ELSE IF i = 2 THEN (v \div Base) % Base
                  ELSE IF i = 3 THEN v \div (Base * Base)
                  ELSE 0]

(***************************************************************************)
(* binary64 values.  c is the class ("fin", "inf", "nan"), s the sign bit, *)
(* and a finite value is m * 2^e, m a four-limb significand below 2^53,    *)
(* normalised (m >= 2^52) unless e = MinExp (subnormals and zero).         *)
(***************************************************************************)
Fin(s, e, m) == [c |-> "fin", s |-> s, e |-> e, m |-> m]

NaN == [c |-> "nan", s |-> 0, e |-> 0, m |-> WZero(4)]

Inf(s) == [c |-> "inf", s |-> s, e |-> 0, m |-> WZero(4)]

Zero(s) == Fin(s, MinExp, WZero(4))

IsNaN(x) == x.c = "nan"

IsFinite(x) == x.c = "fin"

FIsZero(x) == x.c = "fin" /\ WIsZero(x.m)

Xor(a, b) == IF a = b THEN 0 ELSE 1

(***************************************************************************)
(* Rounding to nearest, ties to even, of (W + sticky) * 2^E: the exponent  *)
(* e0 of the result is chosen, W is shifted to it, rounded up on more than *)
(* half (or on half, to even), and renormalised if that carried out.       *)
(***************************************************************************)
RoundPack(s, e, m) ==
  IF e > MaxExp THEN Inf(s)
  ELSE IF WIsZero(m) THEN Zero(s)
  ELSE Fin(s, e, SubSeq(m, 1, 4))

RoundCarry(s, e0, q) ==
  IF WBitLen(q) > MantBits
  THEN RoundPack(s, e0 + 1, WShr(q, 1))
  ELSE RoundPack(s, e0, q)

RoundShift(s, W, r, e0, sticky) ==
  RoundCarry(s, e0,
             IF WBit(W, r-1) = 1 /\ (sticky \/ ~WLowZero(W, r-1) \/ WBit(W, r) = 1)
             THEN WSum(WShr(W, r), <<1>>, 1)
             ELSE WShr(W, r))

RoundAt(s, W, E, sticky, e0) ==
  IF e0 <= E
  THEN IF e0 > MaxExp THEN Inf(s) ELSE Fin(s, e0, WShl(W, E - e0, 4))
  ELSE RoundShift(s, W, e0 - E, e0, sticky)

Round(s, W, E, sticky) ==
  IF WIsZero(W) THEN Zero(s)
  ELSE RoundAt(s, W, E, sticky, WMax(E + WBitLen(W) - MantBits, MinExp))

FNeg(x) == IF IsNaN(x) THEN x ELSE [x EXCEPT !.s = 1 - x.s]

FAbs(x) == IF IsNaN(x) THEN x ELSE [x EXCEPT !.s = 0]

(* |x| < |y| for values that are not NaN *)
MagLess(x, y) ==
  IF x.c = "inf" THEN FALSE
  ELSE IF y.c = "inf" THEN TRUE
  ELSE x.e < y.e \/ (x.e = y.e /\ WLess(x.m, y.m))

FEq(x, y) == ~IsNaN(x) /\ ~IsNaN(y) /\ ((FIsZero(x) /\ FIsZero(y)) \/ x = y)

FLt(x, y) ==
  /\ ~IsNaN(x) /\ ~IsNaN(y)
  /\ ~FEq(x, y)
  /\ IF x.s = 1 /\ y.s = 0 THEN TRUE
     ELSE IF x.s = 0 /\ y.s = 1 THEN FALSE
     ELSE IF x.s = 0 THEN MagLess(x, y)
     ELSE MagLess(y, x)

FLe(x, y) == FLt(x, y) \/ FEq(x, y)

FGt(x, y) == FLt(y, x)

FGe(x, y) == FLe(y, x)

FMul(x, y) ==
  IF IsNaN(x) \/ IsNaN(y) THEN NaN
  ELSE IF x.c = "inf" \/ y.c = "inf"
    THEN IF FIsZero(x) \/ FIsZero(y) THEN NaN ELSE Inf(Xor(x.s, y.s))
  ELSE Round(Xor(x.s, y.s), WMul(x.m, y.m), x.e + y.e, FALSE)

(* a + sign * b for finite non-zero magnitudes a >= b, rounded.  When b    *)
(* lies wholly below the guard bits of a (far) it only makes the result    *)
(* inexact: a keeps two guard bits, less one unit of them when b is taken  *)
(* away.                                                                   *)
MagSumAt(s, sign, a, b, far) ==
  Round(s,
        WSum(WShl(a.m, IF far THEN 2 ELSE a.e - b.e, 8),
             IF far THEN (IF sign = 1 THEN <<0>> ELSE <<1>>) ELSE b.m,
             sign),
        IF far THEN a.e - 2 ELSE b.e,
        far)

(* x + y for finite non-zero x and y of different magnitude or equal sign, *)
(* the larger magnitude first                                              *)
FAddOrdered(x, y, xFirst) ==
  MagSumAt(IF xFirst THEN x.s ELSE y.s,
           IF x.s = y.s THEN 1 ELSE -1,
           IF xFirst THEN x ELSE y,
           IF xFirst THEN y ELSE x,
           (IF xFirst THEN x.e - y.e ELSE y.e - x.e) > MantBits + 3)

FAdd(x, y) ==
  IF IsNaN(x) \/ IsNaN(y) THEN NaN
  ELSE IF x.c = "inf" \/ y.c = "inf"
    THEN IF x.c = "inf"
           THEN IF y.c = "inf" /\ y.s # x.s THEN NaN ELSE x
           ELSE y
  ELSE IF FIsZero(x) \/ FIsZero(y)
    THEN IF FIsZero(x) /\ FIsZero(y) THEN Zero(IF x.s = y.s THEN x.s ELSE 0)
         ELSE IF FIsZero(x) THEN y ELSE x
  ELSE IF x.s # y.s /\ x.e = y.e /\ WEq(x.m, y.m) THEN Zero(0)
  ELSE FAddOrdered(x, y, ~MagLess(x, y))

FSub(x, y) == FAdd(x, FNeg(y))

(***************************************************************************)
(* One digit of long division in base 2^14: Rn (five limbs) is below       *)
(* D * Base and D (four limbs) has its top limb at least Base / 2.  The    *)
(* digit is estimated from the two leading limbs (q0), corrected against   *)
(* the third limb (twice at most), and corrected once more if the product  *)
(* P = q * D still exceeds Rn.                                             *)
(***************************************************************************)
QuotFit(Rn, D, q, P) ==
  [q |-> IF WLess(Rn, P) THEN q - 1 ELSE q,
   r |-> SubSeq(WNorm([i \in 1..5 |->
                         Limb(Rn, i) - Limb(P, i)
                         + (IF WLess(Rn, P) THEN Limb(D, i) ELSE 0)]),
                1, 4)]

QuotTimes(Rn, D, q) ==
  QuotFit(Rn, D, q, WNorm([i \in 1..5 |-> q * Limb(D, i)]))

(* q lowered by one when q * D[3] exceeds what the remainder leaves *)
QuotLower(Rn, D, num, q) ==
  IF num - q * D[4] < Base /\ q * D[3] > Base * (num - q * D[4]) + Rn[3]
  THEN q - 1
  ELSE q

QuotOnce(Rn, D, num, q0) ==
  QuotTimes(Rn, D,
            IF QuotLower(Rn, D, num, q0) < q0
            THEN QuotLower(Rn, D, num, QuotLower(Rn, D, num, q0))
            ELSE q0)

QuotDigit(Rn, D) ==
  QuotOnce(Rn, D, Rn[5] * Base + Rn[4],
           IF (Rn[5] * Base + Rn[4]) \div D[4] >= Base THEN Base - 1
           ELSE (Rn[5] * Base + Rn[4]) \div D[4])

QuotBits == 4 * LimbBits

(* the digits of R * 2^(k * LimbBits) / D prepended to digits, and whether *)
(* the division left a remainder                                           *)
RECURSIVE WDivLoop(_, _, _, _)
RECURSIVE WDivStep(_, _, _, _)
WDivLoop(R, D, k, digits) ==
  IF k = 0 THEN [q |-> digits, rem |-> ~WIsZero(R)]
  ELSE WDivStep(D, k, digits, QuotDigit(<<0>> \o R, D))

WDivStep(D, k, digits, d) ==
  IF d = d THEN WDivLoop(d.r, D, k - 1, <<d.q>> \o digits)
  ELSE [q |-> digits, rem |-> FALSE]

(* floor(X * 2^QuotBits / D) and whether the division left a remainder,   *)
(* for 53-bit X and D, both shifted up to fill their four limbs            *)
WDivFrom(Xn, Dn) ==
  WDivLoop(IF WLess(Xn, Dn) THEN Xn ELSE SubSeq(WSum(Xn, Dn, -1), 1, 4),
           Dn, 4,
           IF WLess(Xn, Dn) THEN <<0>> ELSE <<1>>)

WDiv(X, D) == WDivFrom(WShl(X, 3, 4), WShl(D, 3, 4))

(* a finite non-zero value with its significand shifted up to 53 bits *)
Normalised(x) ==
  [e |-> x.e - (MantBits - WBitLen(x.m)),
   m |-> WShl(x.m, MantBits - WBitLen(x.m), 4)]

FDivRound(s, E, d) == Round(s, d.q, E, d.rem)

FDivNormal(s, nx, ny) == FDivRound(s, nx.e - ny.e - QuotBits, WDiv(nx.m, ny.m))

FDiv(x, y) ==
  IF IsNaN(x) \/ IsNaN(y) THEN NaN
  ELSE IF x.c = "inf" \/ y.c = "inf"
    THEN IF x.c = "inf"
           THEN IF y.c = "inf" THEN NaN ELSE Inf(Xor(x.s, y.s))
           ELSE Zero(Xor(x.s, y.s))
  ELSE IF FIsZero(x) \/ FIsZero(y)
    THEN IF FIsZero(y)
           THEN IF FIsZero(x) THEN NaN ELSE Inf(Xor(x.s, y.s))
           ELSE Zero(Xor(x.s, y.s))
  ELSE FDivNormal(Xor(x.s, y.s), Normalised(x), Normalised(y))

FMin(x, y) == IF IsNaN(x) \/ IsNaN(y) THEN NaN ELSE IF FLt(y, x) THEN y ELSE x

FMax(x, y) == IF IsNaN(x) \/ IsNaN(y) THEN NaN ELSE IF FLt(x, y) THEN y ELSE x

(* a natural v of b bits, 0 < b <= 30, with sign s *)
FromNat(s, v, b) == Fin(s, b - MantBits, WShl(WFromNat(v, 4), MantBits - b, 4))

(* a whole number below 2^30 in magnitude *)
FromInt(n) ==
  IF n = 0 THEN Zero(0)
  ELSE FromNat(IF n > 0 THEN 0 ELSE 1,
               IF n > 0 THEN n ELSE -n,
               CHOOSE b \in 1..30 : n < 2^b /\ -n < 2^b /\ (n >= 2^(b-1) \/ -n >= 2^(b-1)))

(* the decimal literal n / 10^k, as the language reads it *)
Dec(n, k) == FDiv(FromInt(n), FromInt(10^k))

FIsInt(x) ==
  /\ x.c = "fin"
  /\ \/ x.e >= 0
     \/ FIsZero(x)
     \/ (-(x.e) < MantBits /\ WLowZero(x.m, -(x.e)))

(* the three low limbs of a whole number as an integer *)
WToNat(w) == w[1] + Base * w[2] + Base * Base * w[3]

(* the whole part of a number below 2^31 in magnitude *)
FToInt(x) ==
  (IF x.s = 1 THEN -1 ELSE 1)
  * WToNat(IF x.e >= 0 THEN WShl(x.m, x.e, 4)
           ELSE IF -(x.e) >= QuotBits THEN WZero(4)
           ELSE WShr(x.m, -(x.e)))

(* the literals 1 and 2 *)
One == Fin(0, -52, <<0, 0, 0, 1024>>)

Two == Fin(0, -51, <<0, 0, 0, 1024>>)

(* base^k * acc by repeated squaring, for a whole k >= 0; the square and   *)
(* the partial product are computed before the next step is entered        *)
RECURSIVE PowLoop(_, _, _)
RECURSIVE PowStep(_, _, _)
PowLoop(base, k, acc) ==
  IF k = 0 THEN acc
  ELSE PowStep(k,
               IF k > 1 THEN FMul(base, base) ELSE base,
               IF k % 2 = 1 THEN FMul(acc, base) ELSE acc)

PowStep(k, base2, acc2) ==
  IF base2 = base2 /\ acc2 = acc2 THEN PowLoop(base2, k \div 2, acc2) ELSE NaN

(* the power p for exponent n, its reciprocal for exponent -n *)
PowSigned(s, p) == IF s = 0 THEN p ELSE FDiv(One, p)

(* Math.pow(x, n) for a whole-valued n *)
FPow(x, n) ==
  IF IsNaN(n) THEN NaN
  ELSE IF FIsZero(n) THEN One
  ELSE PowSigned(n.s, PowLoop(x, FToInt(FAbs(n)), One))

(***************************************************************************)
(* Math.log: NaN below zero, -Infinity at zero; a positive x is split as   *)
(* f * 2^k with f between sqrt(1/2) and sqrt(2), and                       *)
(* ln f = 2 * (z + z^3/3 + z^5/5 + ...) with z = (f - 1)/(f + 1).          *)
(***************************************************************************)
Ln2 == Fin(0, -53, <<14831, 15336, 9263, 1419>>)

Sqrt2 == Fin(0, -52, <<15309, 6652, 2534, 1448>>)

LogTerms == 11

(* 1 + z2/3 + z2^2/5 + ... by Horner's rule, from the last term down *)
RECURSIVE LogSeries(_, _, _)
RECURSIVE LogNext(_, _, _)
LogSeries(z2, j, acc) ==
  IF j < 0 THEN acc
  ELSE LogNext(z2, j, FAdd(FDiv(One, FromInt(2 * j + 1)), FMul(z2, acc)))

LogNext(z2, j, acc) ==
  IF acc = acc THEN LogSeries(z2, j - 1, acc) ELSE NaN

(* k * ln 2 + 2 * z * series *)
LogAdd(k, t) == IF k = 0 THEN t ELSE FAdd(FMul(FromInt(k), Ln2), t)

LogOfZ(k, z) ==
  LogAdd(k, FMul(Two, FMul(z, LogSeries(FMul(z, z), LogTerms, Zero(0)))))

LogOfFraction(k, f) == LogOfZ(k, FDiv(FSub(f, One), FAdd(f, One)))

(* f = m * 2^(-up - 52) with up = 1 when m * 2^-52 is above sqrt(2) *)
LogOfScaled(nx, up) == LogOfFraction(nx.e + MantBits - 1 + up, Fin(0, 1 - up - MantBits, nx.m))

LogOfNormalised(nx) ==
  LogOfScaled(nx, IF FGt(Fin(0, 1 - MantBits, nx.m), Sqrt2) THEN 1 ELSE 0)

FLog(x) ==
  IF IsNaN(x) THEN NaN
  ELSE IF FIsZero(x) THEN Inf(1)
  ELSE IF x.s = 1 THEN NaN
  ELSE IF x.c = "inf" THEN x
  ELSE LogOfNormalised(Normalised(x))

(***************************************************************************)
(* The program state.  activeTab, calculationType, formData, results and   *)
(* errors are the React state of the mounted page; fn, args, pc and loc    *)
(* are the call in progress (function, arguments, position, locals);       *)
(* schedule and summary are the rows and the summary a generator builds;   *)
(* ret is what a finished call returned or threw.                          *)
(***************************************************************************)
VARIABLES activeTab, calculationType, formData, results, errors,
          fn, args, pc, loc, schedule, summary, ret

vars == <<activeTab, calculationType, formData, results, errors,
          fn, args, pc, loc, schedule, summary, ret>>

pageVars == <<activeTab, calculationType, formData, results, errors>>

(***************************************************************************)
(* Form text.  A numeric field holds either the empty string or a decimal  *)
(* numeral, which is represented by the Number parseFloat reads from it.   *)
(***************************************************************************)
Empty == [c |-> "empty", s |-> 0, e |-> 0, m |-> WZero(4)]

parseFloat(t) == IF t.c = "empty" THEN NaN ELSE t

(* v || 0 *)
OrZero(v) == IF IsNaN(v) \/ FIsZero(v) THEN Zero(0) ELSE v

(* the literal 0.000001 *)
Millionth == Fin(0, -72, <<11661, 727, 12154, 1073>>)

(* the literal 0.01 *)
Cent == Fin(0, -59, <<5243, 7864, 11796, 1310>>)

(* the literal 100 *)
Hundred == Fin(0, -46, <<0, 0, 0, 1600>>)

(* the literal 12 *)
Twelve == Fin(0, -49, <<0, 0, 0, 1536>>)

None == [kind |-> "none"]

Return(v) == [kind |-> "return", value |-> v]

Throw(msg) == [kind |-> "throw", message |-> msg]

(***************************************************************************)
(* In the actions below a local constant of the code, const x = e, is      *)
(* bound by \E x \in {e}, so that e is computed once, where the code       *)
(* computes it.                                                            *)
(***************************************************************************)

(***************************************************************************)
(* Core formula library (utils/calculations.js).                           *)
(***************************************************************************)
(* principal * (rate * pw) / (pw - 1), pw the value of both calls of       *)
(* Math.pow(1 + rate, n)                                                   *)
PaymentGivenPower(principal, rate, pw) ==
  FDiv(FMul(principal, FMul(rate, pw)), FSub(pw, One))

PaymentFormula(principal, rate, n) ==
  PaymentGivenPower(principal, rate, FPow(FAdd(One, rate), n))

(* the body of calculateMonthlyPayment below its argument check *)
MonthlyPaymentOf(principal, annualRate, years) ==
  IF FEq(annualRate, Zero(0))
  THEN Return(FDiv(principal, FMul(years, Twelve)))
  ELSE Return(PaymentFormula(principal,
                             FDiv(FDiv(annualRate, Hundred), Twelve),
                             FMul(years, Twelve)))

(* the function with the argument check weakened to principal < 0 *)
calculateMonthlyPaymentUnchecked(principal, annualRate, years) ==
  IF FLt(principal, Zero(0))
  THEN Throw("Values must be positive")
  ELSE MonthlyPaymentOf(principal, annualRate, years)

calculateMonthlyPayment(principal, annualRate, years) ==
  IF FLe(principal, Zero(0)) \/ FLt(annualRate, Zero(0)) \/ FLe(years, Zero(0))
  THEN Throw("Values must be positive")
  ELSE MonthlyPaymentOf(principal, annualRate, years)

calculateTotalInterest(monthlyPayment, years, principal) ==
  FSub(FMul(FMul(monthlyPayment, years), Twelve), principal)

(***************************************************************************)
(* The Amortization page's generator (pages/AmortizationSchedule.jsx).     *)
(* One action sets the locals up, one action is one passage of the loop    *)
(* body, one builds the summary and returns.                               *)
(***************************************************************************)
periodsPerYear(f) ==
  CASE f = "monthly" -> 12
    [] f = "quarterly" -> 4
    [] f = "semiannual" -> 2
    [] f = "annual" -> 1
    [] OTHER -> 12

PeriodicPayment(principal, periodicRate, numberOfPayments) ==
  IF FEq(periodicRate, Zero(0)) THEN FDiv(principal, numberOfPayments)
  ELSE PaymentFormula(principal, periodicRate, numberOfPayments)

(* Dates are local calendar dates [year, month, day], month counted from   *)
(* 0 as getMonth does; the time zone is UTC, so the day parsed from the    *)
(* form's 'YYYY-MM-DD' is the local day.                                   *)
DaysInMonth(year, month) ==
  IF month = 1
  THEN (IF year % 4 = 0 /\ (year % 100 # 0 \/ year % 400 = 0) THEN 29 ELSE 28)
  ELSE IF month \in {3, 5, 8, 10} THEN 30 ELSE 31

(* the date of day `day` of month `month` (0..11) of `year`: a day past    *)
(* the end of the month runs over into the next month                      *)
MakeDay(year, month, day) ==
  IF day <= DaysInMonth(year, month)
  THEN [year |-> year, month |-> month, day |-> day]
  ELSE [year |-> IF month = 11 THEN year + 1 ELSE year,
        month |-> (month + 1) % 12,
        day |-> day - DaysInMonth(year, month)]

setMonth(date, month) == MakeDay(date.year + (month \div 12), month % 12, date.day)

setFullYear(date, year) == MakeDay(year, date.month, date.day)

(* 'M/D/YYYY' *)
toLocaleDateString(date) == <<date.month + 1, date.day, date.year>>

PageStart ==
  /\ fn = "page" /\ pc = "start"
  /\ \E principal \in {parseFloat(args.data.principal)},
        annualRate \in {FDiv(parseFloat(args.data.annualRate), Hundred)},
        termYears \in {parseFloat(args.data.termYears)},
        extraPayment \in {OrZero(parseFloat(args.data.extraPayment))},
        startDate \in {[year |-> args.data.startDate[1],
                        month |-> args.data.startDate[2] - 1,
                        day |-> args.data.startDate[3]]},
        frequency \in {periodsPerYear(args.data.paymentFrequency)} :
     \E periodicRate \in {FDiv(annualRate, FromInt(frequency))},
        numberOfPayments \in {FMul(termYears, FromInt(frequency))} :
       loc' = [principal |-> principal,
               extraPayment |-> extraPayment,
               frequency |-> frequency,
               periodicRate |-> periodicRate,
               numberOfPayments |-> numberOfPayments,
               periodicPayment |-> PeriodicPayment(principal, periodicRate, numberOfPayments),
               remainingBalance |-> principal,
               totalInterestPaid |-> Zero(0),
               totalPrincipalPaid |-> Zero(0),
               actualPayments |-> 0,
               currentDate |-> startDate,
               i |-> 1]
  /\ schedule' = <<>>
  /\ pc' = "loop"
  /\ UNCHANGED <<pageVars, fn, args, summary, ret>>

(* the loop condition with i < numberOfPayments *)
PageLoopTestStrict ==
  /\ FLt(FromInt(loc.i), loc.numberOfPayments)
  /\ FGt(loc.remainingBalance, Cent)

PageLoopTest ==
  /\ FLe(FromInt(loc.i), loc.numberOfPayments)
  /\ FGt(loc.remainingBalance, Cent)

PageRow ==
  /\ fn = "page" /\ pc = "loop"
  /\ PageLoopTest
  /\ \E interestPayment \in {FMul(loc.remainingBalance, loc.periodicRate)} :
     \E due \in {FAdd(FSub(loc.periodicPayment, interestPayment), loc.extraPayment)} :
     \E adjust \in {FGt(due, loc.remainingBalance)} :
     \E principalPayment \in {IF adjust THEN loc.remainingBalance ELSE due} :
     \E periodicPayment \in {IF adjust THEN FAdd(principalPayment, interestPayment)
                             ELSE loc.periodicPayment},
        remainingBalance \in {FSub(loc.remainingBalance, principalPayment)},
        totalInterestPaid \in {FAdd(loc.totalInterestPaid, interestPayment)},
        totalPrincipalPaid \in {FAdd(loc.totalPrincipalPaid, principalPayment)} :
     \E stop \in {FLe(remainingBalance, Cent)} :
       /\ schedule' = Append(schedule,
                         [paymentNumber |-> loc.i,
                          paymentDate |-> toLocaleDateString(loc.currentDate),
                          monthlyPayment |-> periodicPayment,
                          principalPayment |-> principalPayment,
                          interestPayment |-> interestPayment,
                          extraPayment |-> loc.extraPayment,
                          remainingBalance |-> FMax(Zero(0), remainingBalance),
                          cumulativeInterest |-> totalInterestPaid,
                          cumulativePrincipal |-> totalPrincipalPaid])
       /\ loc' = [loc EXCEPT !.periodicPayment = periodicPayment,
                             !.remainingBalance = remainingBalance,
                             !.totalInterestPaid = totalInterestPaid,
                             !.totalPrincipalPaid = totalPrincipalPaid,
                             !.actualPayments = @ + 1,
                             !.currentDate =
                               IF loc.frequency \in {12, 4, 2}
                               THEN setMonth(@, @.month + (12 \div loc.frequency))
                               ELSE setFullYear(@, @.year + 1),
                             !.i = IF stop THEN @ ELSE @ + 1]
       /\ pc' = IF stop THEN "return" ELSE "loop"
  /\ UNCHANGED <<pageVars, fn, args, summary, ret>>

(* the date of the first entry *)
payoffDateOfFirstEntry(sched) ==
  IF sched = <<>> THEN None ELSE sched[1].paymentDate

(* schedule[schedule.length - 1]?.paymentDate *)
payoffDate(sched) ==
  IF sched = <<>> THEN None ELSE sched[Len(sched)].paymentDate

PageReturn ==
  /\ fn = "page"
  /\ pc = "return" \/ (pc = "loop" /\ ~PageLoopTest)
  /\ summary' = [originalPrincipal |-> loc.principal,
                 totalPayments |-> loc.actualPayments,
                 totalAmountPaid |-> FAdd(loc.totalPrincipalPaid, loc.totalInterestPaid),
                 totalInterestPaid |-> loc.totalInterestPaid,
                 totalPrincipalPaid |-> loc.totalPrincipalPaid,
                 monthlyPayment |-> loc.periodicPayment,
                 extraPaymentTotal |-> FMul(loc.extraPayment, FromInt(loc.actualPayments)),
                 timeSaved |-> FSub(loc.numberOfPayments, FromInt(loc.actualPayments)),
                 interestSaved |->
                   IF FGt(loc.extraPayment, Zero(0))
                   THEN FSub(FSub(FMul(loc.periodicPayment, loc.numberOfPayments),
                                  loc.principal),
                             loc.totalInterestPaid)
                   ELSE Zero(0),
                 payoffDate |-> payoffDate(schedule)]
  /\ ret' = Return("schedule and summary")
  /\ pc' = "done"
  /\ UNCHANGED <<pageVars, fn, args, loc, schedule>>

(***************************************************************************)
(* generateAmortizationSchedule of utils/calculations.js, monthly only.    *)
(***************************************************************************)
UtilsStart ==
  /\ fn = "utils" /\ pc = "start"
  /\ \E monthlyRate \in {FDiv(FDiv(args.annualRate, Hundred), Twelve)},
        monthlyPayment \in {calculateMonthlyPayment(args.principal, args.annualRate,
                                                    args.years)} :
       IF monthlyPayment.kind = "throw"
       THEN /\ ret' = monthlyPayment
            /\ pc' = "done"
            /\ UNCHANGED <<loc, schedule>>
       ELSE /\ loc' = [monthlyRate |-> monthlyRate,
                       monthlyPayment |-> monthlyPayment.value,
                       remainingBalance |-> args.principal,
                       paymentNumber |-> 1,
                       currentDate |-> args.startDate,
                       cumulativeInterest |-> Zero(0)]
            /\ schedule' = <<>>
            /\ pc' = "loop"
            /\ UNCHANGED ret
  /\ UNCHANGED <<pageVars, fn, args, summary>>

UtilsLoopTest ==
  /\ FGt(loc.remainingBalance, Cent)
  /\ FLe(FromInt(loc.paymentNumber), FMul(FMul(args.years, Twelve), Two))

UtilsRow ==
  /\ fn = "utils" /\ pc = "loop"
  /\ UtilsLoopTest
  /\ \E interestPayment \in {FMul(loc.remainingBalance, loc.monthlyRate)} :
     \E cumulativeInterest \in {FAdd(loc.cumulativeInterest, interestPayment)},
        principalPayment \in
          {FMin(FAdd(FSub(loc.monthlyPayment, interestPayment), args.extraPayment),
                loc.remainingBalance)} :
     \E totalPayment \in {FAdd(interestPayment, principalPayment)},
        remainingBalance \in {FSub(loc.remainingBalance, principalPayment)} :
       /\ schedule' = Append(schedule,
                         [paymentNumber |-> loc.paymentNumber,
                          date |-> loc.currentDate,
                          monthlyPayment |-> totalPayment,
                          principalPayment |-> principalPayment,
                          interestPayment |-> interestPayment,
                          remainingBalance |-> FMax(Zero(0), remainingBalance),
                          cumulativeInterest |-> cumulativeInterest])
       /\ loc' = [loc EXCEPT !.remainingBalance = remainingBalance,
                             !.cumulativeInterest = cumulativeInterest,
                             !.currentDate = setMonth(@, @.month + 1),
                             !.paymentNumber = @ + 1]
  /\ UNCHANGED <<pageVars, fn, args, pc, summary, ret>>

UtilsReturn ==
  /\ fn = "utils" /\ pc = "loop"
  /\ ~UtilsLoopTest
  /\ ret' = Return("schedule")
  /\ pc' = "done"
  /\ UNCHANGED <<pageVars, fn, args, loc, schedule, summary>>

(***************************************************************************)
(* Direct calls of the formula library: the payment, then the total        *)
(* interest computed from it.                                              *)
(***************************************************************************)
CallMonthlyPayment ==
  /\ fn = "calculateMonthlyPayment" /\ pc = "start"
  /\ ret' = calculateMonthlyPayment(args.principal, args.annualRate, args.years)
  /\ pc' = "returned"
  /\ UNCHANGED <<pageVars, fn, args, loc, schedule, summary>>

CallTotalInterest ==
  /\ fn = "calculateMonthlyPayment" /\ pc = "returned"
  /\ ret.kind = "return"
  /\ loc' = [totalPayments |-> FMul(FMul(ret.value, args.years), Twelve),
             totalInterest |-> calculateTotalInterest(ret.value, args.years, args.principal)]
  /\ pc' = "done"
  /\ UNCHANGED <<pageVars, fn, args, schedule, summary, ret>>

(***************************************************************************)
(* Inputs of the schedule generators.  Math.pow is modelled for whole      *)
(* exponents, so a fractional number of periods is drawn at rate 0 only,   *)
(* where the generators do not call it.  The generators are called as      *)
(* functions: principal 0 is among the arguments, although the page's form *)
(* (register('principal', { min: 1000 })) does not submit it.              *)
(* One loan over 30 years (100000 at 6 percent, no extra payment) is drawn *)
(* besides the short terms.                                                *)
(***************************************************************************)
MaxTermYears == 2

Frequencies == {"monthly", "quarterly", "semiannual", "annual"}

SchedPrincipals == {FromInt(0), FromInt(1000), FromInt(100000)}

SchedRates == {FromInt(0), FromInt(6), FromInt(12)}

SchedTerms == {FromInt(y) : y \in 1..MaxTermYears} \cup {Dec(15, 1)}

SchedExtras == {FromInt(-100), FromInt(0), FromInt(100)}

WholePeriods(rate, term, f) ==
  FIsZero(rate) \/ FIsInt(FMul(term, FromInt(periodsPerYear(f))))

IdlePage ==
  /\ activeTab = "amortization"
  /\ calculationType = "payment"
  /\ formData = None
  /\ results = None
  /\ errors = {}

InitSched ==
  /\ IdlePage
  /\ pc = "start"
  /\ loc = None
  /\ schedule = <<>>
  /\ summary = None
  /\ ret = None
  /\ \E in \in (SchedPrincipals \X SchedRates \X SchedTerms \X SchedExtras)
                \cup {<<FromInt(100000), FromInt(6), FromInt(30), FromInt(0)>>} :
     \E p \in {in[1]}, r \in {in[2]}, t \in {in[3]}, x \in {in[4]},
        d \in {<<2024, 1, 15>>, <<2024, 1, 31>>, <<2024, 2, 29>>} :
       \/ /\ fn = "utils"
          /\ args = [principal |-> p, annualRate |-> r, years |-> t, extraPayment |-> x,
                     startDate |-> [year |-> d[1], month |-> d[2] - 1, day |-> d[3]]]
       \/ \E f \in Frequencies :
            /\ WholePeriods(r, t, f)
            /\ fn = "page"
            /\ args = [data |-> [principal |-> p, annualRate |-> r, termYears |-> t,
                                 extraPayment |-> x, startDate |-> d,
                                 paymentFrequency |-> f]]

NextSched ==
  \/ PageStart
  \/ PageRow
  \/ PageReturn
  \/ UtilsStart
  \/ UtilsRow
  \/ UtilsReturn

SpecSched == InitSched /\ [][NextSched]_vars

(***************************************************************************)
(* Inputs of the direct calls: valid and invalid arguments, NaN, a rate so *)
(* small that 1 + monthlyRate keeps only a few of its bits.                *)
(***************************************************************************)
MaxPayYears == 3

TinyRate == FDiv(One, FMul(FromInt(10^6), FromInt(10^5)))

PayPrincipals == {FromInt(-1000), FromInt(0), FromInt(1000), FromInt(12000),
                  FromInt(100000), NaN}

PayRates == {FromInt(-1), FromInt(0), TinyRate, FromInt(5), Dec(65, 1), NaN}

PayYears == {FromInt(y) : y \in -1..MaxPayYears} \cup {FromInt(7), FromInt(30), NaN}

InitPay ==
  /\ IdlePage
  /\ fn = "calculateMonthlyPayment"
  /\ pc = "start"
  /\ loc = None
  /\ schedule = <<>>
  /\ summary = None
  /\ ret = None
  /\ \E p \in PayPrincipals, r \in PayRates, y \in PayYears :
       args = [principal |-> p, annualRate |-> r, years |-> y]

NextPay ==
  \/ CallMonthlyPayment
  \/ CallTotalInterest

SpecPay == InitPay /\ [][NextPay]_vars

(***************************************************************************)
(* The Loan Calculator page (pages/LoanCalculator.jsx).  errors is the set *)
(* of keys that hold a message; results is null (None) or the object of    *)
(* the last successful calculation.  HandleCalculate is the click in the   *)
(* modes payment, amount and term; the mode rate, which iterates, is       *)
(* modelled step by step further below.                                    *)
(***************************************************************************)
CalculationTypes == {"payment", "amount", "term"}

validateForm ==
  {name \in CASE calculationType = "payment" -> {"loanAmount", "interestRate", "loanTerm"}
              [] calculationType = "amount" -> {"monthlyPayment", "interestRate", "loanTerm"}
              [] calculationType = "term" -> {"loanAmount", "monthlyPayment", "interestRate"}
              [] calculationType = "rate" -> {"loanAmount", "monthlyPayment", "loanTerm"}
              [] OTHER -> {} :
     formData[name].c = "empty"}

(* payment * ((1 - Math.pow(1 + rate, -n)) / rate) *)
DiscountedValue(payment, rate, n) ==
  FMul(payment, FDiv(FSub(One, FPow(FAdd(One, rate), FNeg(n))), rate))

MaxLoanAmountAt(payment, monthlyRate, numPayments) ==
  IF FEq(monthlyRate, Zero(0)) THEN FMul(payment, numPayments)
  ELSE DiscountedValue(payment, monthlyRate, numPayments)

(* the loan amount a payment supports ('amount' mode) *)
MaxLoanAmount(payment, rate, years) ==
  MaxLoanAmountAt(payment, FDiv(rate, Twelve), FMul(years, Twelve))

LoanTermMonthsAt(principal, monthlyRate, payment) ==
  IF FEq(monthlyRate, Zero(0)) THEN FDiv(principal, payment)
  ELSE FDiv(FNeg(FLog(FSub(One, FDiv(FMul(principal, monthlyRate), payment)))),
            FLog(FAdd(One, monthlyRate)))

(* the number of months a payment needs ('term' mode) *)
LoanTermMonths(principal, rate, payment) ==
  LoanTermMonthsAt(principal, FDiv(rate, Twelve), payment)

(* the branch of handleCalculate for calculationType 'payment' *)
CalculatePayment(principal, rate, years, fees, insurance, taxes) ==
  \E call \in {calculateMonthlyPayment(principal, FMul(rate, Hundred), years)} :
    IF call.kind = "throw"
    THEN /\ errors' = {"general"}
         /\ UNCHANGED results
    ELSE \E monthlyPayment \in {call.value} :
         \E totalPayments \in {FMul(FMul(monthlyPayment, years), Twelve)} :
           /\ errors' = {}
           /\ results' = [monthlyPayment |-> monthlyPayment,
                          totalPayments |-> totalPayments,
                          totalInterest |-> FSub(totalPayments, principal),
                          totalMonthlyPayment |-> FAdd(FAdd(monthlyPayment, insurance), taxes),
                          loanAmount |-> principal,
                          totalCost |-> FAdd(totalPayments, fees)]

(* the branch for calculationType 'amount' *)
CalculateAmount(payment, rate, years, downPayment, fees, insurance, taxes) ==
  \E maxLoanAmount \in {MaxLoanAmount(payment, rate, years)},
     totalPayments \in {FMul(payment, FMul(years, Twelve))} :
    /\ errors' = {}
    /\ results' = [maxLoanAmount |-> maxLoanAmount,
                   maxPurchasePrice |-> FAdd(maxLoanAmount, downPayment),
                   totalPayments |-> totalPayments,
                   totalInterest |-> FSub(totalPayments, maxLoanAmount),
                   totalMonthlyPayment |-> FAdd(FAdd(payment, insurance), taxes),
                   monthlyPayment |-> payment,
                   totalCost |-> FAdd(totalPayments, fees)]

(* the branch for calculationType 'term' *)
CalculateTerm(principal, rate, payment, fees, insurance, taxes) ==
  \E loanTermMonths \in {LoanTermMonths(principal, rate, payment)} :
  \E totalPayments \in {FMul(payment, loanTermMonths)} :
    /\ errors' = {}
    /\ results' = [loanTerm |-> FDiv(loanTermMonths, Twelve),
                   loanTermMonths |-> loanTermMonths,
                   totalPayments |-> totalPayments,
                   totalInterest |-> FSub(totalPayments, principal),
                   totalMonthlyPayment |-> FAdd(FAdd(payment, insurance), taxes),
                   loanAmount |-> principal,
                   monthlyPayment |-> payment,
                   totalCost |-> FAdd(totalPayments, fees)]

HandleCalculate ==
  /\ activeTab = "loan"
  /\ calculationType \in CalculationTypes
  /\ \E newErrors \in {validateForm} :
       IF newErrors # {}
       THEN /\ errors' = newErrors
            /\ UNCHANGED results
       ELSE \E principal \in {OrZero(parseFloat(formData.loanAmount))},
               rate \in {FDiv(parseFloat(formData.interestRate), Hundred)},
               years \in {parseFloat(formData.loanTerm)},
               payment \in {OrZero(parseFloat(formData.monthlyPayment))},
               downPayment \in {OrZero(parseFloat(formData.downPayment))},
               fees \in {OrZero(parseFloat(formData.fees))},
               insurance \in {OrZero(parseFloat(formData.insurance))},
               taxes \in {OrZero(parseFloat(formData.taxes))} :
              CASE calculationType = "payment" ->
                     CalculatePayment(principal, rate, years, fees, insurance, taxes)
                [] calculationType = "amount" ->
                     CalculateAmount(payment, rate, years, downPayment, fees, insurance, taxes)
                [] calculationType = "term" ->
                     CalculateTerm(principal, rate, payment, fees, insurance, taxes)
  /\ UNCHANGED <<activeTab, calculationType, formData, fn, args, pc, loc, schedule,
                 summary, ret>>

SetCalculationType(t) ==
  /\ activeTab = "loan"
  /\ calculationType' = t
  /\ UNCHANGED <<activeTab, formData, results, errors, fn, args, pc, loc, schedule,
                 summary, ret>>

(* the field of results the main result shows for a calculation type *)
MainResult(type) ==
  CASE type = "payment" -> "monthlyPayment"
    [] type = "amount" -> "maxLoanAmount"
    [] type = "term" -> "loanTerm"
    [] type = "rate" -> "annualRate"

HandleInputChange(name, value) ==
  /\ activeTab = "loan"
  /\ formData' = [formData EXCEPT ![name] = value]
  /\ errors' = errors \ {name}
  /\ UNCHANGED <<activeTab, calculationType, results, fn, args, pc, loc, schedule,
                 summary, ret>>

(***************************************************************************)
(* Inputs of the Loan Calculator: the amount, rate and term are typed      *)
(* before the first click; the payment field is edited between clicks, to  *)
(* a typed figure or to the payment the page has just computed.            *)
(***************************************************************************)
LongTerm == 30

VanishingRate == FDiv(One, FMul(FromInt(10^7), FromInt(10^6)))

LoanAmounts == {Empty, FromInt(100000)}

LoanRates == {FromInt(0), FromInt(5), VanishingRate}

LoanTerms == {FromInt(1), FromInt(LongTerm)}

TypedPayments == {Empty, FromInt(0), FromInt(-500), FromInt(400), FromInt(600)}

ComputedPayment ==
  IF results # None /\ "monthlyPayment" \in DOMAIN results
  THEN {results.monthlyPayment}
  ELSE {}

InitLoan ==
  /\ activeTab = "loan"
  /\ calculationType = "payment"
  /\ \E a \in LoanAmounts, r \in LoanRates, t \in LoanTerms :
       formData = [loanAmount |-> a, interestRate |-> r, loanTerm |-> t,
                   monthlyPayment |-> Empty, downPayment |-> Empty, fees |-> Empty,
                   insurance |-> Empty, taxes |-> Empty]
  /\ results = None
  /\ errors = {}
  /\ fn = "none"
  /\ args = None
  /\ pc = "idle"
  /\ loc = None
  /\ schedule = <<>>
  /\ summary = None
  /\ ret = None

EditPayment == \E v \in TypedPayments \cup ComputedPayment : HandleInputChange("monthlyPayment", v)

SelectType == \E t \in CalculationTypes : SetCalculationType(t)

NextLoan ==
  \/ HandleCalculate
  \/ SelectType
  \/ EditPayment

SpecLoan == InitLoan /\ [][NextLoan]_vars

(***************************************************************************)
(* The APR Calculator page.  calculateAPR validates the form, computes the *)
(* payment and the net amount disbursed, and then walks apr in steps of    *)
(* 0.0001 until the present value of the payments meets the net amount or  *)
(* the iteration cap is reached.  One action is the code before the loop,  *)
(* one is a passage of the loop, one publishes the results.                *)
(***************************************************************************)
maxIterations == 100

(* a step and tolerance of 0.001 *)
toleranceTenfold == Fin(0, -62, <<10748, 3014, 9437, 1048>>)

(* the literal 0.0001: the tolerance and the step of the search *)
tolerance == Fin(0, -66, <<813, 11377, 11822, 1677>>)

(* parseInt of a decimal numeral: the digits before the point *)
parseInt(t) ==
  IF t.c = "empty" THEN NaN
  ELSE IF IsFinite(t) THEN FromInt(FToInt(t))
  ELSE NaN

validateFormAPR ==
  {name \in {"loanAmount", "interestRate", "loanTerm"} :
     \/ formData[name].c = "empty"
     \/ name = "loanAmount" /\ FLe(parseFloat(formData.loanAmount), Zero(0))
     \/ name = "interestRate" /\ FLt(parseFloat(formData.interestRate), Zero(0))
     \/ name = "loanTerm" /\ FLe(parseInt(formData.loanTerm), Zero(0))}

(* the total costs with the points left out *)
totalFeesWithoutPoints(fees, points, principal) == fees

totalFees(fees, points, principal) ==
  FAdd(fees, FDiv(FMul(points, principal), Hundred))

PresentValue(monthlyPayment, apr, numPayments) ==
  DiscountedValue(monthlyPayment, FDiv(apr, Twelve), numPayments)

APRStart ==
  /\ fn = "calculateAPR" /\ pc = "start"
  /\ \E newErrors \in {validateFormAPR} :
       /\ errors' = newErrors
       /\ IF newErrors # {}
          THEN /\ pc' = "done"
               /\ UNCHANGED loc
          ELSE \E principal \in {parseFloat(formData.loanAmount)},
                  rate \in {FDiv(parseFloat(formData.interestRate), Hundred)},
                  term \in {parseInt(formData.loanTerm)},
                  fees \in {OrZero(parseFloat(formData.fees))},
                  points \in {OrZero(parseFloat(formData.points))} :
               \E monthlyRate \in {FDiv(rate, Twelve)},
                  numPayments \in {FMul(term, Twelve)},
                  fee \in {totalFees(fees, points, principal)} :
                 /\ loc' = [principal |-> principal,
                            rate |-> rate,
                            numPayments |-> numPayments,
                            monthlyPayment |->
                              PaymentFormula(principal, monthlyRate, numPayments),
                            totalFees |-> fee,
                            netLoanAmount |-> FSub(principal, fee),
                            apr |-> rate,
                            iteration |-> 0]
                 /\ pc' = "loop"
  /\ UNCHANGED <<activeTab, calculationType, formData, results, fn, args, schedule,
                 summary, ret>>

APRIter ==
  /\ fn = "calculateAPR" /\ pc = "loop"
  /\ loc.iteration < maxIterations
  /\ \E presentValue \in {PresentValue(loc.monthlyPayment, loc.apr, loc.numPayments)} :
       IF FLt(FAbs(FSub(presentValue, loc.netLoanAmount)), tolerance)
       THEN /\ pc' = "break"
            /\ UNCHANGED loc
       ELSE /\ loc' = [loc EXCEPT !.apr = IF FGt(presentValue, loc.netLoanAmount)
                                          THEN FAdd(@, tolerance)
                                          ELSE FSub(@, tolerance),
                                  !.iteration = @ + 1]
            /\ UNCHANGED pc
  /\ UNCHANGED <<pageVars, fn, args, schedule, summary, ret>>

APRFinish ==
  /\ fn = "calculateAPR"
  /\ pc = "break" \/ (pc = "loop" /\ loc.iteration >= maxIterations)
  /\ \E totalInterest \in {FSub(FMul(loc.monthlyPayment, loc.numPayments), loc.principal)} :
       results' = [monthlyPayment |-> loc.monthlyPayment,
                   apr |-> FMul(loc.apr, Hundred),
                   totalInterest |-> totalInterest,
                   totalFees |-> loc.totalFees,
                   totalCost |-> FAdd(FAdd(loc.principal, totalInterest), loc.totalFees),
                   netLoanAmount |-> loc.netLoanAmount,
                   effectiveRate |-> FMul(loc.apr, Hundred)]
  /\ pc' = "done"
  /\ UNCHANGED <<activeTab, calculationType, formData, errors, fn, args, loc, schedule,
                 summary, ret>>

(***************************************************************************)
(* Inputs of the APR Calculator: the form as typed before the click.       *)
(***************************************************************************)
(* empty, 100000 and 1000000000000 *)
APRAmounts == {Empty, FromInt(100000), Fin(0, -13, <<0, 2048, 10570, 1862>>)}

APRRates == {FromInt(0), FromInt(5)}

APRTerms == {Dec(15, 1), FromInt(20)}

APRFees == {Empty, Dec(5, 5), FromInt(40), FromInt(2000)}

APRPoints == {Empty, FromInt(1)}

InitAPR ==
  /\ activeTab = "apr"
  /\ calculationType = "payment"
  /\ \E a \in APRAmounts, r \in APRRates, t \in APRTerms, f \in APRFees, p \in APRPoints :
       formData = [loanAmount |-> a, interestRate |-> r, loanTerm |-> t,
                   paymentFrequency |-> "monthly", fees |-> f, points |-> p,
                   compoundingMethod |-> "monthly"]
  /\ results = None
  /\ errors = {}
  /\ fn = "calculateAPR"
  /\ args = None
  /\ pc = "start"
  /\ loc = None
  /\ schedule = <<>>
  /\ summary = None
  /\ ret = None

NextAPR ==
  \/ APRStart
  \/ APRIter
  \/ APRFinish

SpecAPR == InitAPR /\ [][NextAPR]_vars

(***************************************************************************)
(* The Loan Calculator's 'rate' mode.  handleCalculate validates the form  *)
(* and then iterates rate = rate - f / df from the guess 0.01, at most 100 *)
(* times, leaving the loop when a step is smaller than 0.000001.  One      *)
(* action is the code before the loop, one is a passage of the loop, one   *)
(* publishes the results.                                                  *)
(***************************************************************************)
(* principal * rate * pw / (pw - 1) - payment *)
RateResidual(principal, rate, pw, payment) ==
  FSub(FDiv(FMul(FMul(principal, rate), pw), FSub(pw, One)), payment)

(* principal * (pw * (n * rate + 1) - pw) / Math.pow(pw - 1, 2) *)
RateSlope(principal, rate, pw, n) ==
  FDiv(FMul(principal, FSub(FMul(pw, FAdd(FMul(n, rate), One)), pw)),
       FPow(FSub(pw, One), Two))

RateStart ==
  /\ activeTab = "loan" /\ calculationType = "rate"
  /\ fn = "handleCalculate" /\ pc = "start"
  /\ \E newErrors \in {validateForm} :
       /\ errors' = newErrors
       /\ IF newErrors # {}
          THEN /\ pc' = "done"
               /\ UNCHANGED loc
          ELSE /\ loc' = [principal |-> OrZero(parseFloat(formData.loanAmount)),
                          payment |-> OrZero(parseFloat(formData.monthlyPayment)),
                          numPayments |-> FMul(parseFloat(formData.loanTerm), Twelve),
                          fees |-> OrZero(parseFloat(formData.fees)),
                          insurance |-> OrZero(parseFloat(formData.insurance)),
                          taxes |-> OrZero(parseFloat(formData.taxes)),
                          rate |-> Cent,
                          i |-> 0]
               /\ pc' = "loop"
  /\ UNCHANGED <<activeTab, calculationType, formData, results, fn, args, schedule,
                 summary, ret>>

RateIter ==
  /\ fn = "handleCalculate" /\ pc = "loop"
  /\ loc.i < 100
  /\ \E pw \in {FPow(FAdd(One, loc.rate), loc.numPayments)} :
     \E f \in {RateResidual(loc.principal, loc.rate, pw, loc.payment)},
        df \in {RateSlope(loc.principal, loc.rate, pw, loc.numPayments)} :
     \E newRate \in {FSub(loc.rate, FDiv(f, df))} :
       IF FLt(FAbs(FSub(newRate, loc.rate)), Millionth)
       THEN /\ pc' = "break"
            /\ UNCHANGED loc
       ELSE /\ loc' = [loc EXCEPT !.rate = newRate, !.i = @ + 1]
            /\ UNCHANGED pc
  /\ UNCHANGED <<pageVars, fn, args, schedule, summary, ret>>

RateFinish ==
  /\ fn = "handleCalculate"
  /\ pc = "break" \/ (pc = "loop" /\ loc.i >= 100)
  /\ \E totalPayments \in {FMul(loc.payment, loc.numPayments)} :
       results' = [annualRate |-> FMul(FMul(loc.rate, Twelve), Hundred),
                   monthlyRate |-> FMul(loc.rate, Hundred),
                   totalPayments |-> totalPayments,
                   totalInterest |-> FSub(totalPayments, loc.principal),
                   totalMonthlyPayment |->
                     FAdd(FAdd(loc.payment, loc.insurance), loc.taxes),
                   loanAmount |-> loc.principal,
                   monthlyPayment |-> loc.payment,
                   totalCost |-> FAdd(totalPayments, loc.fees)]
  /\ pc' = "done"
  /\ UNCHANGED <<activeTab, calculationType, formData, errors, fn, args, loc, schedule,
                 summary, ret>>

(***************************************************************************)
(* Inputs of the 'rate' mode: the form as typed before the click.  The     *)
(* payment field holds a typed figure or the level payment of 100000 at    *)
(* one of the monthly rates 0.005 and 0.02 over the term of the form.      *)
(***************************************************************************)
RoundTripRates == {Fin(0, -60, <<5243, 7864, 11796, 1310>>), FDiv(Two, Hundred)}

InitRate ==
  /\ activeTab = "loan"
  /\ calculationType = "rate"
  /\ \E a \in {Empty, FromInt(0), FromInt(100000)},
        t \in {FromInt(1), FromInt(10), FromInt(30)} :
     \E p \in {Empty, FromInt(600)}
              \cup {PaymentFormula(FromInt(100000), r, FMul(t, Twelve)) :
                      r \in RoundTripRates} :
       formData = [loanAmount |-> a, interestRate |-> Empty, loanTerm |-> t,
                   monthlyPayment |-> p, downPayment |-> Empty, fees |-> Empty,
                   insurance |-> Empty, taxes |-> Empty]
  /\ results = None
  /\ errors = {}
  /\ fn = "handleCalculate"
  /\ args = None
  /\ pc = "start"
  /\ loc = None
  /\ schedule = <<>>
  /\ summary = None
  /\ ret = None

NextRate ==
  \/ RateStart
  \/ RateIter
  \/ RateFinish

SpecRate == InitRate /\ [][NextRate]_vars

(***************************************************************************)
(* The Time Value of Money page (pages/TimeValueCalculator.jsx).           *)
(* calculate validates the form for the selected calculation and computes  *)
(* one value; results holds the value and the calculation's type (the      *)
(* formula and explanation texts are display strings and are left out).    *)
(* The 'rate' calculation iterates r = r - f / df from the guess 0.1, at   *)
(* most 100 times, leaving the loop when a step is smaller than 0.0001:    *)
(* one action is calculate up to the loop (for the other calculations, the *)
(* whole of it), one is a passage of the loop, one publishes the rate.     *)
(***************************************************************************)
validateFormTVM ==
  {name \in CASE calculationType = "pv" -> {"futureValue", "interestRate", "periods"}
              [] calculationType = "fv" -> {"presentValue", "interestRate", "periods"}
              [] calculationType = "pmt" -> {"presentValue", "interestRate", "periods"}
              [] calculationType = "rate" -> {"presentValue", "futureValue", "periods"}
              [] calculationType = "nper" ->
                   {"presentValue", "futureValue", "interestRate"}
              [] OTHER -> {} :
     /\ formData[name].c = "empty"
     /\ (calculationType = "pmt" /\ name = "presentValue") =>
          formData.futureValue.c = "empty"}

(* the factor left out: payments at the end of the period in any case *)
TimingFactorAtEnd(rate, type) == One

(* 1 + rate * type *)
TimingFactor(rate, type) == FAdd(One, FMul(rate, type))

(* the switch of calculate for 'pv', 'fv', 'pmt' and 'nper'; pw is         *)
(* Math.pow(1 + rate, nper) and PowSigned(1, pw) is                        *)
(* Math.pow(1 + rate, -nper)                                               *)
TVMValue(calc, pv, fv, pmt, rate, nper, type, pw) ==
  CASE calc = "pv" ->
         IF FIsZero(pmt) THEN FDiv(fv, pw)
         ELSE FAdd(FMul(FMul(pmt, FDiv(FSub(One, PowSigned(1, pw)), rate)),
                        TimingFactor(rate, type)),
                   FDiv(fv, pw))
    [] calc = "fv" ->
         IF FIsZero(pmt) THEN FMul(pv, pw)
         ELSE FAdd(FMul(FMul(pmt, FDiv(FSub(pw, One), rate)), TimingFactor(rate, type)),
                   FMul(pv, pw))
    [] calc = "pmt" ->
         IF FIsZero(fv)
         THEN FDiv(FMul(pv, rate), FSub(One, PowSigned(1, pw)))
         ELSE FDiv(FMul(fv, rate), FSub(pw, One))
    [] calc = "nper" ->
         FDiv(FLog(FDiv(fv, pv)), FLog(FAdd(One, rate)))

TVMCalculate ==
  /\ activeTab = "timevalue"
  /\ fn = "calculate" /\ pc = "start"
  /\ \E newErrors \in {validateFormTVM} :
       /\ errors' = newErrors
       /\ IF newErrors # {}
          THEN /\ pc' = "done"
               /\ UNCHANGED <<results, loc>>
          ELSE \E pv \in {OrZero(parseFloat(formData.presentValue))},
                  fv \in {OrZero(parseFloat(formData.futureValue))},
                  pmt \in {OrZero(parseFloat(formData.payment))},
                  rate \in {FDiv(parseFloat(formData.interestRate), Hundred)},
                  nper \in {OrZero(parseFloat(formData.periods))},
                  compounding \in {parseFloat(formData.compoundingFrequency)},
                  type \in {IF formData.paymentTiming = "beginning" THEN One ELSE Zero(0)} :
               IF calculationType = "rate"
               THEN /\ loc' = [pv |-> pv, fv |-> fv, nper |-> nper,
                               r |-> Fin(0, -56, <<6554, 9830, 6553, 1638>>),
                               i |-> 0]
                    /\ pc' = "loop"
                    /\ UNCHANGED results
               ELSE \E pw \in {FPow(FAdd(One, rate), nper)} :
                      /\ results' = [value |-> TVMValue(calculationType, pv, fv, pmt, rate,
                                                        nper, type, pw),
                                     type |-> calculationType]
                      /\ pc' = "done"
                      /\ UNCHANGED loc
  /\ UNCHANGED <<activeTab, calculationType, formData, fn, args, schedule, summary, ret>>

TVMRateIter ==
  /\ fn = "calculate" /\ pc = "loop"
  /\ loc.i < 100
  /\ \E f \in {FSub(FMul(loc.pv, FPow(FAdd(One, loc.r), loc.nper)), loc.fv)},
        df \in {FMul(FMul(loc.pv, loc.nper),
                     FPow(FAdd(One, loc.r), FSub(loc.nper, One)))} :
     \E newR \in {FSub(loc.r, FDiv(f, df))} :
       IF FLt(FAbs(FSub(newR, loc.r)), tolerance)
       THEN /\ pc' = "break"
            /\ UNCHANGED loc
       ELSE /\ loc' = [loc EXCEPT !.r = newR, !.i = @ + 1]
            /\ UNCHANGED pc
  /\ UNCHANGED <<pageVars, fn, args, schedule, summary, ret>>

TVMRateFinish ==
  /\ fn = "calculate"
  /\ pc = "break" \/ (pc = "loop" /\ loc.i >= 100)
  /\ results' = [value |-> FMul(loc.r, Hundred), type |-> calculationType]
  /\ pc' = "done"
  /\ UNCHANGED <<activeTab, calculationType, formData, errors, fn, args, loc, schedule,
                 summary, ret>>

(***************************************************************************)
(* Inputs of the Time Value of Money page: the calculation selected and    *)
(* the form as typed before the click.                                     *)
(***************************************************************************)
InitTVM ==
  /\ activeTab = "timevalue"
  /\ calculationType \in {"pv", "fv", "pmt", "rate", "nper"}
  /\ \E pv \in {Empty, FromInt(0), FromInt(1000)},
        fv \in {Empty, FromInt(1000), FromInt(2000)},
        pmt \in {Empty, FromInt(100)},
        rate \in {FromInt(6)},
        nper \in {FromInt(10), FromInt(3650)},
        compounding \in {One, Twelve},
        timing \in {"end", "beginning"} :
       formData = [presentValue |-> pv, futureValue |-> fv, payment |-> pmt,
                   interestRate |-> rate, periods |-> nper,
                   compoundingFrequency |-> compounding, paymentTiming |-> timing]
  /\ results = None
  /\ errors = {}
  /\ fn = "calculate"
  /\ args = None
  /\ pc = "start"
  /\ loc = None
  /\ schedule = <<>>
  /\ summary = None
  /\ ret = None

NextTVM ==
  \/ TVMCalculate
  \/ TVMRateIter
  \/ TVMRateFinish

SpecTVM == InitTVM /\ [][NextTVM]_vars

(***************************************************************************)
(* The Amortization page: the form's submit handler.  results holds the    *)
(* component state [schedule, summary, isGenerating]; args.timers holds    *)
(* the submissions waiting for their 800 ms timer, args.data the one whose *)
(* schedule is being generated.  The state updates made after the await    *)
(* run in one task and are committed together (React 18).  The submit      *)
(* button is disabled from the render after setIsGenerating(true); a       *)
(* submission dispatched before that render is accepted.                   *)
(***************************************************************************)
MaxPending == 2

(* setSchedule(newSchedule); setSummary(newSummary); setIsGenerating(false) *)
SetScheduleOnly(state, newSchedule, newSummary) ==
  [state EXCEPT !.schedule = newSchedule, !.isGenerating = FALSE]

SetScheduleAndSummary(state, newSchedule, newSummary) ==
  [schedule |-> newSchedule, summary |-> newSummary, isGenerating |-> FALSE]

(* handleSubmit: the rules registered for the fields, then onSubmit up to  *)
(* the await                                                               *)
OnSubmit ==
  /\ activeTab = "amortization"
  /\ fn = "onSubmit" /\ pc = "idle"
  /\ \E p \in {Empty, FromInt(1000), FromInt(100000)},
        f \in {"quarterly", "annual"} :
     \E data \in {[principal |-> p, annualRate |-> FromInt(12), termYears |-> One,
                   extraPayment |-> Zero(0), startDate |-> <<2024, 1, 31>>,
                   paymentFrequency |-> f]} :
     \E newErrors \in {{name \in {"principal", "annualRate", "termYears"} :
                          \/ data[name].c = "empty"
                          \/ name = "principal" /\ FLt(data[name], FromInt(1000))
                          \/ name = "annualRate" /\ FLt(data[name], Zero(0))
                          \/ name = "termYears" /\ FLt(data[name], One)}} :
       /\ errors' = newErrors
       /\ IF newErrors # {}
          THEN UNCHANGED <<results, args>>
          ELSE /\ Len(args.timers) < MaxPending
               /\ results' = [results EXCEPT !.isGenerating = TRUE]
               /\ args' = [args EXCEPT !.timers = Append(@, data)]
  /\ UNCHANGED <<activeTab, calculationType, formData, fn, pc, loc, schedule, summary, ret>>

(* the timer of the oldest waiting submission fires: onSubmit resumes and  *)
(* calls generateAmortizationSchedule(data)                                *)
TimerFires ==
  /\ fn = "onSubmit" /\ pc = "idle"
  /\ args.timers # <<>>
  /\ args' = [data |-> Head(args.timers), timers |-> Tail(args.timers)]
  /\ fn' = "page"
  /\ pc' = "start"
  /\ UNCHANGED <<pageVars, loc, schedule, summary, ret>>

(* the rest of the try block, the catch block and the finally block *)
StoreResult ==
  /\ fn = "page" /\ pc = "done"
  /\ results' = IF ret.kind = "return"
                THEN SetScheduleAndSummary(results, schedule, summary)
                ELSE [results EXCEPT !.isGenerating = FALSE]
  /\ args' = [args EXCEPT !.data = None]
  /\ fn' = "onSubmit"
  /\ pc' = "idle"
  /\ loc' = None
  /\ schedule' = <<>>
  /\ summary' = None
  /\ ret' = None
  /\ UNCHANGED <<activeTab, calculationType, formData, errors>>

InitSubmit ==
  /\ activeTab = "amortization"
  /\ calculationType = "payment"
  /\ formData = None
  /\ results = [schedule |-> <<>>, summary |-> None, isGenerating |-> FALSE]
  /\ errors = {}
  /\ fn = "onSubmit"
  /\ args = [data |-> None, timers |-> <<>>]
  /\ pc = "idle"
  /\ loc = None
  /\ schedule = <<>>
  /\ summary = None
  /\ ret = None

NextSubmit ==
  \/ OnSubmit
  \/ TimerFires
  \/ PageStart
  \/ PageRow
  \/ PageReturn
  \/ StoreResult

SpecSubmit == InitSubmit /\ [][NextSubmit]_vars

(***************************************************************************)
(* The two schedule generators called one after the other with the same    *)
(* loan: utils generateAmortizationSchedule first, its schedule kept in    *)
(* results, then the generator of the Amortization page with monthly       *)
(* frequency.                                                              *)
(***************************************************************************)
InitBoth ==
  /\ IdlePage
  /\ fn = "utils"
  /\ pc = "start"
  /\ loc = None
  /\ schedule = <<>>
  /\ summary = None
  /\ ret = None
  /\ \E p \in {FromInt(1000), FromInt(100000)},
        r \in {FromInt(0), FromInt(6), FromInt(12)},
        t \in {FromInt(1), FromInt(2)},
        x \in {FromInt(0), FromInt(100)} :
       args = [principal |-> p, annualRate |-> r, years |-> t, extraPayment |-> x,
               startDate |-> [year |-> 2024, month |-> 0, day |-> 15],
               data |-> [principal |-> p, annualRate |-> r, termYears |-> t,
                         extraPayment |-> x, startDate |-> <<2024, 1, 15>>,
                         paymentFrequency |-> "monthly"]]

(* the schedule utils returned is kept and the page generator is called *)
CallPage ==
  /\ fn = "utils" /\ pc = "done"
  /\ ret.kind = "return"
  /\ results' = [schedule |-> schedule]
  /\ fn' = "page"
  /\ pc' = "start"
  /\ loc' = None
  /\ schedule' = <<>>
  /\ ret' = None
  /\ UNCHANGED <<activeTab, calculationType, formData, errors, args, summary>>

NextBoth ==
  \/ UtilsStart
  \/ UtilsRow
  \/ UtilsReturn
  \/ CallPage
  \/ PageStart
  \/ PageRow
  \/ PageReturn

SpecBoth == InitBoth /\ [][NextBoth]_vars

(***************************************************************************)
(* calculateFutureValue of utils/calculations.js, called with all five     *)
(* arguments.                                                              *)
(***************************************************************************)
calculateFutureValue ==
  /\ fn = "calculateFutureValue" /\ pc = "start"
  /\ \E rate \in {FDiv(args.annualRate, Hundred)},
        periods \in {FMul(args.years, args.compoundingFrequency)} :
     \E periodicRate \in {FDiv(rate, args.compoundingFrequency)} :
     \E pw \in {FPow(FAdd(One, periodicRate), periods)} :
     \E futureValuePV \in {FMul(args.presentValue, pw)},
        futureValuePMT \in
          {IF FGt(args.monthlyContribution, Zero(0)) /\ FGt(periodicRate, Zero(0))
           THEN FMul(args.monthlyContribution, FDiv(FSub(pw, One), periodicRate))
           ELSE IF FGt(args.monthlyContribution, Zero(0))
                THEN FMul(args.monthlyContribution, periods)
                ELSE Zero(0)},
        totalContributions \in
          {FAdd(args.presentValue,
                FMul(FMul(args.monthlyContribution, args.years), Twelve))} :
     \E totalFutureValue \in {FAdd(futureValuePV, futureValuePMT)} :
     \E totalGains \in {FSub(totalFutureValue, totalContributions)} :
       ret' = Return([futureValue |-> totalFutureValue,
                      totalContributions |-> totalContributions,
                      totalGains |-> totalGains,
                      gainPercentage |->
                        IF FGt(totalContributions, Zero(0))
                        THEN FMul(FDiv(totalGains, totalContributions), Hundred)
                        ELSE Zero(0)])
  /\ pc' = "done"
  /\ UNCHANGED <<pageVars, fn, args, loc, schedule, summary>>

InitFutureValue ==
  /\ IdlePage
  /\ fn = "calculateFutureValue"
  /\ pc = "start"
  /\ loc = None
  /\ schedule = <<>>
  /\ summary = None
  /\ ret = None
  /\ \E pv \in {FromInt(0), FromInt(1000), FromInt(5000)},
        pmt \in {FromInt(0), FromInt(100), FromInt(250)},
        r \in {FromInt(0), FromInt(6)},
        y \in {FromInt(1), FromInt(10), Dec(25, 1)},
        cf \in {FromInt(1), FromInt(4), FromInt(12), FromInt(365)} :
       args = [presentValue |-> pv, monthlyContribution |-> pmt, annualRate |-> r,
               years |-> y, compoundingFrequency |-> cf]

NextFutureValue == calculateFutureValue

SpecFutureValue == InitFutureValue /\ [][NextFutureValue]_vars

(***************************************************************************)
(* Properties of the schedule generators.                                  *)
(***************************************************************************)
SchedInput ==
  IF fn = "page"
  THEN [principal |-> parseFloat(args.data.principal),
        annualRate |-> parseFloat(args.data.annualRate),
        termYears |-> parseFloat(args.data.termYears),
        extraPayment |-> OrZero(parseFloat(args.data.extraPayment))]
  ELSE [principal |-> args.principal,
        annualRate |-> args.annualRate,
        termYears |-> args.years,
        extraPayment |-> args.extraPayment]

SchedInputValid ==
  /\ fn \in {"page", "utils"}
  /\ FGt(SchedInput.principal, Zero(0))
  /\ FGe(SchedInput.annualRate, Zero(0))
  /\ FGt(SchedInput.termYears, Zero(0))
  /\ FGe(SchedInput.extraPayment, Zero(0))

Finished == pc = "done" /\ ret.kind = "return"

LastRow == schedule[Len(schedule)]

(* |x - y| <= 0.01 *)
WithinCent(x, y) == FLe(FAbs(FSub(x, y)), Cent)

(* the principalPayment of rows lo..hi added up *)
RECURSIVE SumPrincipal(_, _, _)
SumPrincipal(rows, lo, hi) ==
  IF lo > hi THEN Zero(0)
  ELSE IF lo = hi THEN rows[lo].principalPayment
  ELSE LET mid == (lo + hi) \div 2
           left == SumPrincipal(rows, lo, mid)
           right == SumPrincipal(rows, mid + 1, hi)
       IN IF left = left /\ right = right THEN FAdd(left, right) ELSE NaN

(* C1: in every schedule generated from principal > 0, annualRate >= 0,    *)
(* termYears > 0 and extraPayment >= 0, at any frequency, remainingBalance *)
(* never increases from a row to the next and the last row of the returned *)
(* schedule has remainingBalance 0 within 0.01.                            *)
C1_BalanceRunsDownToZero ==
  SchedInputValid =>
    /\ \A k \in 1..(Len(schedule) - 1) :
         FLe(schedule[k + 1].remainingBalance, schedule[k].remainingBalance)
    /\ (Finished /\ Len(schedule) > 0) => FLe(LastRow.remainingBalance, Cent)

(* C2: in every row of every schedule the recorded gross payment           *)
(* (monthlyPayment) equals principalPayment + interestPayment of the row,  *)
(* up to rounding, with and without an extra payment.                      *)
C2_GrossIsPrincipalPlusInterest ==
  fn \in {"page", "utils"} =>
    \A k \in 1..Len(schedule) :
      WithinCent(schedule[k].monthlyPayment,
                 FAdd(schedule[k].principalPayment, schedule[k].interestPayment))

(* C3: the principalPayment of all rows of a returned schedule sums to the *)
(* original principal within 0.01, and in every row of the page's schedule *)
(* cumulativePrincipal plus the balance still owed is the principal.       *)
C3_PrincipalIsRepaid ==
  SchedInputValid =>
    /\ Finished =>
         WithinCent(SumPrincipal(schedule, 1, Len(schedule)), SchedInput.principal)
    /\ fn = "page" =>
         \A k \in 1..Len(schedule) :
           WithinCent(FAdd(schedule[k].cumulativePrincipal, schedule[k].remainingBalance),
                      SchedInput.principal)

(* C15: a generator called with principal <= 0 ends with an error, and no  *)
(* successful call returns a schedule without rows.                        *)
C15_NoEmptyScheduleReturned ==
  fn \in {"page", "utils"} =>
    /\ (pc = "done" /\ FLe(SchedInput.principal, Zero(0))) => ret.kind = "throw"
    /\ Finished => Len(schedule) > 0

(* the loop has ended with more than 0.01 still owed *)
Overrun == fn \in {"page", "utils"} /\ Finished /\ FGt(loc.remainingBalance, Cent)

(* what the generators return with a schedule that pays the loan off *)
PlainReturn == ret \in {Return("schedule and summary"), Return("schedule")}

(* C16: when the loop stops at the period cap with more than 0.01 still    *)
(* owed, the generator signals it to the caller: the schedule is not       *)
(* returned the way a paid-off schedule is.                                *)
C16_OverrunIsSignalled == Overrun => ~PlainReturn

(* the periodic payment computed before the loop *)
BasePayment == PeriodicPayment(loc.principal, loc.periodicRate, loc.numberOfPayments)

(* C19: the final-period adjustment changes the gross payment of the last  *)
(* row only: the rows before it carry the base periodic payment, and       *)
(* summary.monthlyPayment and summary.interestSaved are computed from the  *)
(* base periodic payment, also when extraPayment > 0.                      *)
C19_SummaryUsesBasePayment ==
  (fn = "page" /\ Finished) =>
    /\ \A k \in 1..(Len(schedule) - 1) : schedule[k].monthlyPayment = BasePayment
    /\ summary.monthlyPayment = BasePayment
    /\ summary.interestSaved =
         IF FGt(loc.extraPayment, Zero(0))
         THEN FSub(FSub(FMul(BasePayment, loc.numberOfPayments), loc.principal),
                   loc.totalInterestPaid)
         ELSE Zero(0)

(* the number of periods of the call: termYears * periodsPerYear *)
PeriodsOfCall ==
  IF fn = "page" THEN loc.numberOfPayments ELSE FMul(args.years, Twelve)

PlainLoan ==
  /\ SchedInputValid
  /\ Finished
  /\ FIsZero(SchedInput.extraPayment)
  /\ FIsInt(PeriodsOfCall)

C21_AtMostTotalPeriodsRows ==
  (fn \in {"page", "utils"} /\ Len(schedule) > 0) =>
    /\ FLe(FromInt(Len(schedule)), PeriodsOfCall)
    /\ \A k \in 1..(Len(schedule) - 1) : FGt(schedule[k].remainingBalance, Cent)

(***************************************************************************)
(* Properties of calculateMonthlyPayment.                                  *)
(***************************************************************************)
PayInputValid ==
  /\ FGt(args.principal, Zero(0))
  /\ FGe(args.annualRate, Zero(0))
  /\ FGt(args.years, Zero(0))

PayInputInvalid ==
  \/ FLe(args.principal, Zero(0))
  \/ FLt(args.annualRate, Zero(0))
  \/ FLe(args.years, Zero(0))

(* C4: calculateMonthlyPayment throws, and returns nothing, whenever       *)
(* principal <= 0, annualRate < 0 or years <= 0; a call that returns a     *)
(* number (not NaN) had principal > 0, annualRate >= 0 and years > 0.      *)
C4_PaymentRejectsInvalidInput ==
  (fn = "calculateMonthlyPayment" /\ pc # "start") =>
    /\ PayInputInvalid => (ret.kind = "throw" /\ loc = None)
    /\ (ret.kind = "return" /\ ~IsNaN(ret.value)) => PayInputValid

C4_Witness ==
  /\ fn = "calculateMonthlyPayment" /\ pc = "returned"
  /\ ret.kind = "throw"
  /\ FGt(args.principal, Zero(0)) /\ FGe(args.annualRate, Zero(0))
  /\ FIsZero(args.years)

(* C5: for principal > 0, annualRate >= 0 and years > 0 the total paid,    *)
(* payment * years * 12, is at least the principal, and at annualRate = 0  *)
(* it is the principal exactly.                                            *)
C5_TotalPaidCoversPrincipal ==
  (fn = "calculateMonthlyPayment" /\ pc = "done" /\ PayInputValid) =>
    /\ FGe(loc.totalPayments, args.principal)
    /\ FIsZero(args.annualRate) => FEq(loc.totalPayments, args.principal)

(***************************************************************************)
(* Properties of the Loan Calculator.  A click on Calculate is a step of   *)
(* handleCalculate in the mode selected.                                   *)
(***************************************************************************)
FormPrincipal == OrZero(parseFloat(formData.loanAmount))

FormRate == FDiv(parseFloat(formData.interestRate), Hundred)

FormYears == parseFloat(formData.loanTerm)

FormPayment == OrZero(parseFloat(formData.monthlyPayment))

Click(type) == calculationType = type /\ HandleCalculate

(* the payment field holds calculateMonthlyPayment(P, r, y) of the form's  *)
(* amount, rate and term                                                   *)
PaymentOfForm ==
  /\ validateForm = {}
  /\ formData.loanAmount.c # "empty"
  /\ LET call == calculateMonthlyPayment(FormPrincipal, FMul(FormRate, Hundred), FormYears)
     IN call.kind = "return" /\ formData.monthlyPayment = call.value

(* |x - y| <= 1e-6 * y *)
RelClose(x, y) == FLe(FAbs(FSub(x, y)), FMul(Millionth, y))

(* C6: when the payment field holds calculateMonthlyPayment(P, r, y) for   *)
(* the form's P > 0, r > 0 and y > 0, a click in 'amount' mode publishes a *)
(* maxLoanAmount equal to P within 1e-6 relative; at rate 0 the published  *)
(* maxLoanAmount is payment * periods.                                     *)
C6_AmountInvertsPayment ==
  [][Click("amount") =>
       /\ (PaymentOfForm /\ FGt(FormRate, Zero(0))) =>
            /\ "maxLoanAmount" \in DOMAIN results'
            /\ RelClose(results'.maxLoanAmount, FormPrincipal)
       /\ (validateForm = {} /\ FIsZero(FormRate)) =>
            /\ "maxLoanAmount" \in DOMAIN results'
            /\ results'.maxLoanAmount = FMul(FormPayment, FMul(FormYears, Twelve))]_vars

(* the payment does not cover the interest of the first month *)
InterestNotCovered ==
  FLe(FormPayment, FMul(FormPrincipal, FDiv(FormRate, Twelve)))

(* C7: a click in 'term' mode with payment <= principal * monthlyRate sets *)
(* an error and publishes no result, and the loanTermMonths of a published *)
(* result is never NaN, infinite or negative.                              *)
C7_TermModeRejectsUncoveredInterest ==
  [][Click("term") =>
       /\ InterestNotCovered => (results' = results /\ errors' # {})
       /\ "loanTermMonths" \in DOMAIN results' =>
            (IsFinite(results'.loanTermMonths) /\ FGe(results'.loanTermMonths, Zero(0)))]_vars

(***************************************************************************)
(* Properties of the APR Calculator.                                       *)
(***************************************************************************)
APRComputed == fn = "calculateAPR" /\ pc \in {"loop", "break", "done"} /\ loc # None

APRPublished == fn = "calculateAPR" /\ pc = "done" /\ results # None

(* C8: totalFees is fees + points * principal / 100 and netLoanAmount is   *)
(* principal - totalFees, in the locals and in the published results;      *)
(* principal 100000, fees 2000 and points 1 give netLoanAmount 97000, and  *)
(* fees and points left empty count as 0.                                  *)
C8_NetAmountIsPrincipalLessFees ==
  APRComputed =>
    LET principal == parseFloat(formData.loanAmount)
        fees == OrZero(parseFloat(formData.fees))
        points == OrZero(parseFloat(formData.points))
    IN /\ loc.totalFees = FAdd(fees, FDiv(FMul(points, principal), Hundred))
       /\ loc.netLoanAmount = FSub(principal, loc.totalFees)
       /\ (principal = FromInt(100000) /\ fees = FromInt(2000) /\ points = One) =>
            loc.netLoanAmount = FromInt(97000)
       /\ (formData.fees = Empty /\ formData.points = Empty) =>
            (FIsZero(loc.totalFees) /\ loc.netLoanAmount = principal)
       /\ APRPublished =>
            /\ results.totalFees = loc.totalFees
            /\ results.netLoanAmount = loc.netLoanAmount

C8_Witness ==
  /\ APRPublished
  /\ formData.fees = FromInt(2000) /\ formData.points = One
  /\ results.totalFees = FromInt(3000)
  /\ results.netLoanAmount = FromInt(97000)

(* C9: when totalFees > 0 and the nominal rate is > 0, the apr the search  *)
(* ends with is strictly greater than the nominal rate.                    *)
C9_AprExceedsNominalRate ==
  (APRPublished /\ FGt(loc.totalFees, Zero(0)) /\ FGt(loc.rate, Zero(0))) =>
    /\ FGt(loc.apr, loc.rate)
    /\ FGt(results.apr, parseFloat(formData.interestRate))

(* the rate that equates the payments to the net amount lies within one    *)
(* percentage point of the nominal rate                                    *)
TrueAPRNearNominal ==
  /\ FGt(loc.rate, Cent)
  /\ FLe(PresentValue(loc.monthlyPayment, FAdd(loc.rate, Cent), loc.numPayments),
         loc.netLoanAmount)
  /\ FLe(loc.netLoanAmount,
         PresentValue(loc.monthlyPayment, FSub(loc.rate, Cent), loc.numPayments))

(* C10: when the search has finished and the true APR is within one        *)
(* percentage point of the nominal rate, the present value of the payments *)
(* at apr / 12 differs from netLoanAmount by less than the tolerance.      *)
C10_AprEquatesPaymentsToNetAmount ==
  (APRPublished /\ TrueAPRNearNominal) =>
    FLt(FAbs(FSub(PresentValue(loc.monthlyPayment, loc.apr, loc.numPayments),
                  loc.netLoanAmount)),
        tolerance)

(* the payment the formula library returns for the loan of the form *)
APRLibraryPayment ==
  calculateMonthlyPayment(parseFloat(formData.loanAmount),
                          parseFloat(formData.interestRate),
                          parseInt(formData.loanTerm))

(* C11: for every form calculateAPR accepts, the monthly payment it uses   *)
(* and publishes is the payment calculateMonthlyPayment returns for the    *)
(* same principal, nominal rate and years; at nominal rate 0 that is       *)
(* principal / (years * 12), and apr, totalInterest and totalCost are      *)
(* finite numbers.                                                         *)
C11_AprPaymentIsLibraryPayment ==
  APRPublished =>
    /\ APRLibraryPayment.kind = "return"
    /\ loc.monthlyPayment = APRLibraryPayment.value
    /\ results.monthlyPayment = APRLibraryPayment.value
    /\ FIsZero(loc.rate) =>
         /\ results.monthlyPayment = FDiv(loc.principal, loc.numPayments)
         /\ IsFinite(results.apr)
         /\ IsFinite(results.totalInterest)
         /\ IsFinite(results.totalCost)

(* the search is within its cap and apr within bound of the nominal rate;  *)
(* when the rate that equates the payments to the net amount is more than  *)
(* one percentage point above the nominal rate, the search ends at the cap *)
(* without meeting the tolerance                                           *)
SearchBounded(bound) ==
  APRComputed =>
    /\ loc.iteration <= 100
    /\ FLe(FAbs(FSub(loc.apr, loc.rate)), bound)
    /\ (APRPublished
          /\ FGt(PresentValue(loc.monthlyPayment, FAdd(loc.rate, Cent), loc.numPayments),
                 loc.netLoanAmount)) =>
         /\ loc.iteration = 100
         /\ ~FLt(FAbs(FSub(PresentValue(loc.monthlyPayment, loc.apr, loc.numPayments),
                           loc.netLoanAmount)),
                 tolerance)

(* a passage of the loop either leaves it or moves apr by one step of      *)
(* 0.0001: up when the present value exceeds netLoanAmount, down otherwise *)
SearchStep ==
  APRIter =>
    \/ pc' = "break" /\ loc' = loc
    \/ /\ loc'.iteration = loc.iteration + 1
       /\ loc'.apr =
            IF FGt(PresentValue(loc.monthlyPayment, loc.apr, loc.numPayments),
                   loc.netLoanAmount)
            THEN FAdd(loc.apr, tolerance)
            ELSE FSub(loc.apr, tolerance)

RatePublished == fn = "handleCalculate" /\ pc = "done" /\ results # None

(* the payment of the form is the level payment of its principal at the    *)
(* monthly rate r over its term                                            *)
IsLevelPaymentAt(r) ==
  /\ FGt(loc.principal, Zero(0))
  /\ loc.payment = PaymentFormula(loc.principal, r, loc.numPayments)

(* C12: when the payment is the level annuity payment of a principal > 0   *)
(* at a monthly rate r in (0, 1) over n >= 1 periods, the 'rate' mode      *)
(* ends with a monthly rate within 0.000001 of r, and the annualRate it    *)
(* publishes is that rate * 12 * 100.                                      *)
C12_RateModeInvertsPayment ==
  RatePublished =>
    \A r \in RoundTripRates :
      IsLevelPaymentAt(r) =>
        /\ FLt(FAbs(FSub(loc.rate, r)), Millionth)
        /\ results.annualRate = FMul(FMul(loc.rate, Twelve), Hundred)

(***************************************************************************)
(* Properties of the Time Value of Money page.                             *)
(***************************************************************************)
TVMPublished == fn = "calculate" /\ pc = "done" /\ results # None

TVMRatePublished == TVMPublished /\ calculationType = "rate"

(* pv * (1 + r)^n *)
GrownValue(pv, r, n) == FMul(pv, FPow(FAdd(One, r), n))

(* C13: for pv > 0, fv > 0 and n >= 1 periods the 'rate' calculation ends  *)
(* with a rate r that solves pv * (1 + r)^n = fv within the solver         *)
(* tolerance 0.0001 on the rate: fv lies between the values grown at       *)
(* r - 0.0001 and at r + 0.0001; for pv = fv the rate is 0 within the      *)
(* tolerance.                                                              *)
C13_TvmRateSolvesGrowthEquation ==
  (TVMRatePublished /\ FGt(loc.pv, Zero(0)) /\ FGt(loc.fv, Zero(0))
     /\ FGe(loc.nper, One)) =>
    /\ FLe(GrownValue(loc.pv, FSub(loc.r, tolerance), loc.nper), loc.fv)
    /\ FLe(loc.fv, GrownValue(loc.pv, FAdd(loc.r, tolerance), loc.nper))
    /\ results.value = FMul(loc.r, Hundred)
    /\ FEq(loc.pv, loc.fv) => FLt(FAbs(loc.r), tolerance)

(* C14: neither Newton-Raphson rate solver publishes a rate that is NaN or *)
(* infinite: a zero derivative (pv = 0, principal = 0) is reported as an   *)
(* error instead.                                                          *)
C14_SolversNeverPublishNaN ==
  /\ TVMRatePublished => IsFinite(results.value)
  /\ RatePublished => IsFinite(results.annualRate)

(* the locals of calculate, read from the form *)
TVMLocals ==
  [pv |-> OrZero(parseFloat(formData.presentValue)),
   fv |-> OrZero(parseFloat(formData.futureValue)),
   pmt |-> OrZero(parseFloat(formData.payment)),
   rate |-> FDiv(parseFloat(formData.interestRate), Hundred),
   nper |-> OrZero(parseFloat(formData.periods)),
   type |-> IF formData.paymentTiming = "beginning" THEN One ELSE Zero(0)]

(* annualRatePercent / 100 / compoundingFrequency *)
PeriodicRate == FDiv(TVMLocals.rate, parseFloat(formData.compoundingFrequency))

(* C17: the value published by the PV, FV, PMT and NPER calculations is    *)
(* the one their formulas give at the periodic rate                        *)
(* annualRatePercent / 100 / compoundingFrequency.                         *)
C17_PeriodicRateUsesCompounding ==
  (TVMPublished /\ calculationType \in {"pv", "fv", "pmt", "nper"}) =>
    results.value = TVMValue(calculationType, TVMLocals.pv, TVMLocals.fv, TVMLocals.pmt,
                             PeriodicRate, TVMLocals.nper, TVMLocals.type,
                             FPow(FAdd(One, PeriodicRate), TVMLocals.nper))

(* the annuity part and the lump-sum part of a PV or FV calculation with   *)
(* payments at the end of the period                                       *)
AnnuityAtEnd ==
  IF calculationType = "pv"
  THEN DiscountedValue(TVMLocals.pmt, TVMLocals.rate, TVMLocals.nper)
  ELSE FMul(TVMLocals.pmt,
            FDiv(FSub(FPow(FAdd(One, TVMLocals.rate), TVMLocals.nper), One),
                 TVMLocals.rate))

LumpSum ==
  IF calculationType = "pv"
  THEN FDiv(TVMLocals.fv, FPow(FAdd(One, TVMLocals.rate), TVMLocals.nper))
  ELSE FMul(TVMLocals.pv, FPow(FAdd(One, TVMLocals.rate), TVMLocals.nper))

WithPayments ==
  /\ TVMPublished
  /\ calculationType \in {"pv", "fv"}
  /\ ~FIsZero(TVMLocals.pmt)

(* C18: a PV or FV calculation with a non-zero payment publishes the       *)
(* lump-sum part plus the annuity part, the annuity part multiplied by     *)
(* 1 + rate when paymentTiming is 'beginning' and unmodified when it is    *)
(* 'end'.                                                                  *)
C18_BeginningTimingScalesAnnuity ==
  WithPayments =>
    results.value =
      IF formData.paymentTiming = "beginning"
      THEN FAdd(FMul(AnnuityAtEnd, FAdd(One, TVMLocals.rate)), LumpSum)
      ELSE FAdd(AnnuityAtEnd, LumpSum)

C18_Witness ==
  /\ WithPayments
  /\ formData.paymentTiming = "beginning"
  /\ IsFinite(results.value)
  /\ FGt(results.value, FAdd(AnnuityAtEnd, LumpSum))

(* the estimate one Newton step after the one held in loc *)
NextEstimate ==
  FSub(loc.r,
       FDiv(FSub(FMul(loc.pv, FPow(FAdd(One, loc.r), loc.nper)), loc.fv),
            FMul(FMul(loc.pv, loc.nper), FPow(FAdd(One, loc.r), FSub(loc.nper, One)))))

(* C23: the rate solver runs at most 100 Newton iterations and publishes,  *)
(* on both exits, the estimate computed last: the one whose difference     *)
(* from its predecessor met the tolerance when the loop stopped before the *)
(* cap, the one assigned by the 100th iteration otherwise.                 *)
C23_ReturnsLatestEstimate ==
  TVMRatePublished =>
    /\ loc.i <= 100
    /\ results.value = FMul(IF loc.i < 100 THEN NextEstimate ELSE loc.r, Hundred)

PageReturned == fn = "page" /\ pc = "done"

(* termYears * periodsPerYear of the submitted form *)
TotalPeriods ==
  FMul(parseFloat(args.data.termYears),
       FromInt(periodsPerYear(args.data.paymentFrequency)))

(* C24: the summary returned by the page generator is consistent with the  *)
(* schedule returned with it: totalPayments is the number of rows,         *)
(* timeSaved is totalPeriods minus the number of rows and is not negative, *)
(* totalInterestPaid and totalPrincipalPaid are the last row's             *)
(* cumulativeInterest and cumulativePrincipal, totalAmountPaid is their    *)
(* sum, and payoffDate is the last row's date.                             *)
C24_SummaryMatchesSchedule ==
  PageReturned =>
    /\ summary.totalPayments = Len(schedule)
    /\ summary.timeSaved = FSub(TotalPeriods, FromInt(Len(schedule)))
    /\ FGe(summary.timeSaved, Zero(0))
    /\ Len(schedule) > 0 =>
         /\ summary.totalInterestPaid = LastRow.cumulativeInterest
         /\ summary.totalPrincipalPaid = LastRow.cumulativePrincipal
         /\ summary.totalAmountPaid =
              FAdd(LastRow.cumulativeInterest, LastRow.cumulativePrincipal)
         /\ summary.payoffDate = LastRow.paymentDate

C24_Witness ==
  /\ PageReturned
  /\ Len(schedule) > 1
  /\ FGt(summary.timeSaved, Zero(0))
  /\ FGt(summary.totalInterestPaid, Zero(0))
  /\ summary.payoffDate = LastRow.paymentDate
  /\ summary.payoffDate # schedule[1].paymentDate

(* months since year 0 of the date of a row and of the start date passed   *)
(* by the caller                                                           *)
MonthOfRow(row) ==
  IF fn = "page" THEN row.paymentDate[3] * 12 + row.paymentDate[1] - 1
  ELSE row.date.year * 12 + row.date.month

MonthOfStart ==
  IF fn = "page" THEN args.data.startDate[1] * 12 + args.data.startDate[2] - 1
  ELSE args.startDate.year * 12 + args.startDate.month

(* months in a period-unit: 1, 3, 6 or 12 *)
PeriodUnit ==
  IF fn = "page" THEN 12 \div periodsPerYear(args.data.paymentFrequency) ELSE 1

(* C26: row k of a schedule is dated in the month k-1 period-units after   *)
(* the month of the start date, whatever the day of the month of the start *)
(* date: no month is skipped and the dates increase from row to row.       *)
C26_RowDatesAdvanceByPeriod ==
  fn \in {"page", "utils"} =>
    \A k \in 1..Len(schedule) :
      MonthOfRow(schedule[k]) = MonthOfStart + (k - 1) * PeriodUnit

(* the stored summary belongs to the stored schedule: both are as the page *)
(* starts with them, or the summary counts the rows of the schedule and    *)
(* carries the totals and the date of its last row                         *)
SummaryOfSchedule(state) ==
  IF state.schedule = <<>> THEN state.summary = None
  ELSE /\ state.summary # None
       /\ state.summary.totalPayments = Len(state.schedule)
       /\ state.summary.totalInterestPaid =
            state.schedule[Len(state.schedule)].cumulativeInterest
       /\ state.summary.totalPrincipalPaid =
            state.schedule[Len(state.schedule)].cumulativePrincipal
       /\ state.summary.payoffDate = state.schedule[Len(state.schedule)].paymentDate

(* a step that changes the stored schedule or the stored summary stores    *)
(* the pair one call of the generator returned; a submission that          *)
(* completes leaves isGenerating false                                     *)
StoredTogether ==
  /\ (results'.schedule # results.schedule \/ results'.summary # results.summary) =>
       /\ StoreResult
       /\ results'.schedule = schedule
       /\ results'.summary = summary
  /\ StoreResult => ~results'.isGenerating

(* C25: on the Amortization page, after any sequence of submissions,       *)
(* accepted or rejected, also while one is pending, the stored summary is  *)
(* the one derived from the stored schedule: the two are replaced together *)
(* when a submission succeeds and are left alone otherwise, and            *)
(* isGenerating is false when a submission has completed.                  *)
C25_SummaryStoredWithSchedule ==
  [](SummaryOfSchedule(results)) /\ [][StoredTogether]_vars

C25_Witness ==
  /\ results.schedule # <<>>
  /\ results.summary.totalPayments = 4
  /\ results.isGenerating
  /\ Len(args.timers) = 2
  /\ errors # {}

BothReturned == fn = "page" /\ pc = "done" /\ results # None

(* the fields the two generators have in common *)
SameRow(u, p) ==
  /\ u.paymentNumber = p.paymentNumber
  /\ u.monthlyPayment = p.monthlyPayment
  /\ u.principalPayment = p.principalPayment
  /\ u.interestPayment = p.interestPayment
  /\ u.remainingBalance = p.remainingBalance
  /\ u.cumulativeInterest = p.cumulativeInterest

(* C27: called with the same loan (monthly frequency, principal > 0,       *)
(* annualRate >= 0, whole years, extraPayment >= 0) the generator of utils *)
(* and the generator of the page return the same number of rows and, row   *)
(* by row, the same paymentNumber, monthlyPayment, principalPayment,       *)
(* interestPayment, remainingBalance and cumulativeInterest.               *)
C27_GeneratorsAgree ==
  BothReturned =>
    /\ Len(results.schedule) = Len(schedule)
    /\ \A k \in 1..Len(schedule) : SameRow(results.schedule[k], schedule[k])

(* a published calculation with no fees, no points and a nominal rate > 0 *)
NoFeesPublished ==
  /\ APRPublished
  /\ FIsZero(OrZero(parseFloat(formData.fees)))
  /\ FIsZero(OrZero(parseFloat(formData.points)))
  /\ FGt(parseFloat(formData.interestRate), Zero(0))

(* C28: with fees = 0, points = 0 and a nominal rate > 0 the net loan      *)
(* amount is the principal, the APR search leaves the loop at its first    *)
(* tolerance check without adjusting apr, the published apr is the nominal *)
(* rate (rate * 100, rate being the percentage typed / 100), and totalCost *)
(* is principal + totalInterest.                                           *)
C28_NoFeesAprIsNominalRate ==
  NoFeesPublished =>
    /\ loc.netLoanAmount = parseFloat(formData.loanAmount)
    /\ loc.iteration = 0
    /\ results.apr = FMul(FDiv(parseFloat(formData.interestRate), Hundred), Hundred)
    /\ results.totalCost = FAdd(parseFloat(formData.loanAmount), results.totalInterest)

(* C29: on the Loan Calculator, whenever a result is displayed, the main   *)
(* result shown for the selected calculation type (monthlyPayment,         *)
(* maxLoanAmount, loanTerm or annualRate) is a field the stored results    *)
(* contain.                                                                *)
C29_MainResultIsStored ==
  (activeTab = "loan" /\ results # None) =>
    MainResult(calculationType) \in DOMAIN results

FutureValueReturned == fn = "calculateFutureValue" /\ pc = "done"

(* C30: at annualRate = 0 calculateFutureValue reports no gain, whatever   *)
(* the compoundingFrequency: for presentValue >= 0, monthlyContribution    *)
(* >= 0 and years > 0, futureValue is totalContributions and totalGains    *)
(* and gainPercentage are 0.                                               *)
C30_ZeroRateYieldsNoGain ==
  (FutureValueReturned /\ FIsZero(args.annualRate)) =>
    /\ ret.value.futureValue = ret.value.totalContributions
    /\ FIsZero(ret.value.totalGains)
    /\ FIsZero(ret.value.gainPercentage)

====
